---- MODULE Spec2Model ----
(***************************************************************************)
(* Model of the OCL host-side runtime layer (UlizesR/OCL):                 *)
(*   - NDRange work-group sizing (src/src/NDRange.cpp),                    *)
(*   - the move-only handle wrappers Context, CommandQueue, Program,       *)
(*     Kernel, Event and Buffer<T> (construction, move, destruction),      *)
(*   - Buffer<T> data motion (src/include/ocl/Buffer.hpp) over an in-order *)
(*     command queue.                                                      *)
(*   - Kernel::execute and the NDRange padding helpers,                    *)
(*   - Program build, build log and binary cache (src/src/Program.cpp).    *)
(* The specifications share the variables:                                 *)
(*   SpecND     - the NDRange functions applied to bounded inputs,         *)
(*   SpecRes    - wrapper lifecycles of one class chosen at start,         *)
(*   Spec, SpecWrite, SpecCopy, SpecAll - Buffer<T> operations,            *)
(*   SpecKernel - kernels dispatched on a queue,                           *)
(*   SpecProg   - programs built, saved and loaded.                        *)
(***************************************************************************)
EXTENDS Integers, Sequences, FiniteSets, TLC

VARIABLES
    nd,       \* the last NDRange call: function, inputs, returned geometry
    kind,     \* the wrapper class the slots hold
    objs,     \* the wrapper objects: slot -> [live, h, size, cap]
    nextH,    \* the next native handle the native layer hands out
    rel,      \* native handle -> number of clRelease* calls made on it
    acq,      \* native handle -> number of wrappers constructed on it
    raw,      \* raw cl_event handles the caller holds and owns
    mem,      \* device memory: native handle -> element sequence
    pending,  \* commands submitted to the queue and not yet executed
    mapped,   \* native handles with an outstanding host mapping
    out,      \* the caller's host vector handed to the read overloads
    prog,     \* native program objects: handle -> build status and build log
    files,    \* the program cache file on disk
    args,     \* native kernel objects: handle -> the values bound to its arguments
    trace,    \* how much history the two variables below keep
    last,     \* the last host call: operation, arguments, outcome
    prev      \* history: the kind and wrapper of the host call before it

vars == <<nd, kind, objs, nextH, rel, acq, raw, mem, pending, mapped, out, prog, files, args,
          trace, last, prev>>

ndVars == <<nd>>
resVars == <<kind, objs, nextH, rel, acq, raw>>
bufVars == <<mem, pending, mapped, out>>
progVars == <<prog, files>>
histVars == <<trace, last, prev>>

Min(a, b) == IF a < b THEN a ELSE b
Max(a, b) == IF a > b THEN a ELSE b

(***************************************************************************)
(* NDRange                                                                 *)
(***************************************************************************)

\* Bounds of the NDRange inputs.
MaxGlobal == 48
MaxGlobal3 == 9

\* Values the kernel introspection reports in the model.
WorkGroupSizes == {1, 2, 3, 7, 32, 64, 100, 256, 1024}
PreferredMultiples == {1, 2, 3, 32, 64}

\* The problem size of the benchmark (const size_t N = 1024 * 1024).
BenchmarkN == 1048576

\* Arguments the calls are made with: every small extent with every reported
\* limit and multiple, and the benchmark's size on devices whose preferred
\* multiple is a power of two.
Inputs1D ==
    {<<g, m, p>> : g \in 1..MaxGlobal, m \in WorkGroupSizes, p \in PreferredMultiples}
        \cup {<<BenchmarkN, m, p>> : m \in WorkGroupSizes, p \in PreferredMultiples \ {3}}
Extents2D == (1..MaxGlobal) \cup {2 ^ 10}

\* The hard ceiling of the 1D doubling loop.
Ceiling1D == 1024

\* while (local_size * 2 <= max_work_group && local_size * 2 <= 1024) local_size *= 2;
RECURSIVE ScaleUp(_, _)
ScaleUp(local_size, max_work_group) ==
    IF local_size * 2 <= max_work_group /\ local_size * 2 <= Ceiling1D
    THEN ScaleUp(local_size * 2, max_work_group)
    ELSE local_size

\* for (i = min(number, max_value); i >= 1; i--) if (number % i == 0) return i;
RECURSIVE ScanDown(_, _)
ScanDown(number, i) ==
    IF i >= 1
    THEN IF number % i = 0 THEN i ELSE ScanDown(number, i - 1)
    ELSE 1

findBestDivisor(number, max_value) == ScanDown(number, Min(number, max_value))

\* A result left as the divisor found, not snapped.
SnapSkipped(best_size, preferred_multiple) == best_size

\* if (preferred_multiple > 1) { best = (best / pm) * pm; if (best == 0) best = pm; }
SnapToMultiple(best_size, preferred_multiple) ==
    IF preferred_multiple > 1
    THEN LET snapped == (best_size \div preferred_multiple) * preferred_multiple
         IN  IF snapped = 0 THEN preferred_multiple ELSE snapped
    ELSE best_size

getOptimal1D(global_size, max_work_group, preferred_multiple) ==
    LET local_size == ScaleUp(preferred_multiple, max_work_group)
        best_size == SnapToMultiple(findBestDivisor(global_size, local_size),
                                    preferred_multiple)
    IN  Max(1, Min(best_size, max_work_group))

Candidates2D == << <<16, 16>>, <<32, 8>>, <<8, 32>>, <<8, 8>>, <<16, 8>>, <<8, 16>> >>
Candidates3D == << <<8, 8, 4>>, <<4, 8, 8>>, <<8, 4, 4>>, <<4, 4, 4>> >>

Fits2D(c, gx, gy, max_work_group) ==
    /\ c[1] * c[2] <= max_work_group
    /\ gx % c[1] = 0
    /\ gy % c[2] = 0

Fits3D(c, gx, gy, gz, max_work_group) ==
    /\ c[1] * c[2] * c[3] <= max_work_group
    /\ gx % c[1] = 0
    /\ gy % c[2] = 0
    /\ gz % c[3] = 0

\* while (global % local != 0 && local > 1) local--;
RECURSIVE MakeDivisible(_, _)
MakeDivisible(global, local) ==
    IF global % local # 0 /\ local > 1
    THEN MakeDivisible(global, local - 1)
    ELSE local

\* A fallback that never shrinks.
KeptAsIs2D(lx, ly, max_work_group) == <<lx, ly>>

\* while (lx * ly > max) { if (lx > ly) lx /= 2; else ly /= 2; }
RECURSIVE Halve2D(_, _, _)
Halve2D(lx, ly, max_work_group) ==
    IF lx * ly > max_work_group
    THEN IF lx > ly
         THEN Halve2D(lx \div 2, ly, max_work_group)
         ELSE Halve2D(lx, ly \div 2, max_work_group)
    ELSE <<lx, ly>>

\* while (lx*ly*lz > max) halve the largest, never below 1
RECURSIVE Halve3D(_, _, _, _)
Halve3D(lx, ly, lz, max_work_group) ==
    IF lx * ly * lz > max_work_group
    THEN IF lx >= ly /\ lx >= lz
         THEN Halve3D(Max(1, lx \div 2), ly, lz, max_work_group)
         ELSE IF ly >= lz
              THEN Halve3D(lx, Max(1, ly \div 2), lz, max_work_group)
              ELSE Halve3D(lx, ly, Max(1, lz \div 2), max_work_group)
    ELSE <<lx, ly, lz>>

Fallback2D(gx, gy, max_work_group) ==
    Halve2D(MakeDivisible(gx, Min(16, gx)), MakeDivisible(gy, Min(16, gy)),
            max_work_group)

Fallback3D(gx, gy, gz, max_work_group) ==
    Halve3D(MakeDivisible(gx, Min(4, gx)), MakeDivisible(gy, Min(4, gy)),
            MakeDivisible(gz, Min(4, gz)), max_work_group)

\* A scan that keeps the last candidate that fits.
getOptimal2DLastFit(gx, gy, max_work_group) ==
    LET ok == {i \in 1..Len(Candidates2D) :
                   Fits2D(Candidates2D[i], gx, gy, max_work_group)}
    IN  IF ok # {}
        THEN Candidates2D[CHOOSE i \in ok : \A j \in ok : i >= j]
        ELSE Fallback2D(gx, gy, max_work_group)

getOptimal2D(gx, gy, max_work_group) ==
    LET ok == {i \in 1..Len(Candidates2D) :
                   Fits2D(Candidates2D[i], gx, gy, max_work_group)}
    IN  IF ok # {}
        THEN Candidates2D[CHOOSE i \in ok : \A j \in ok : i <= j]
        ELSE Fallback2D(gx, gy, max_work_group)

getOptimal3D(gx, gy, gz, max_work_group) ==
    LET ok == {i \in 1..Len(Candidates3D) :
                   Fits3D(Candidates3D[i], gx, gy, gz, max_work_group)}
    IN  IF ok # {}
        THEN Candidates3D[CHOOSE i \in ok : \A j \in ok : i <= j]
        ELSE Fallback3D(gx, gy, gz, max_work_group)

NoCall == [fn |-> "none", g |-> <<1, 1, 1>>, max |-> 1, pm |-> 1, loc |-> <<1, 1, 1>>]

CallOptimal1D ==
    /\ UNCHANGED <<kind, objs, nextH, rel, acq, raw, mem, pending, mapped, out, prog, files, args,
                 trace, last, prev>>
    /\ nd.fn = "none"
    /\ \E i \in Inputs1D :
        nd' = [fn |-> "1D", g |-> <<i[1], 1, 1>>, max |-> i[2], pm |-> i[3],
               loc |-> <<getOptimal1D(i[1], i[2], i[3]), 1, 1>>]

CallOptimal2D ==
    /\ UNCHANGED <<kind, objs, nextH, rel, acq, raw, mem, pending, mapped, out, prog, files, args,
                 trace, last, prev>>
    /\ nd.fn = "none"
    /\ \E gx \in Extents2D, gy \in Extents2D, m \in WorkGroupSizes :
        nd' = [fn |-> "2D", g |-> <<gx, gy, 1>>, max |-> m, pm |-> 1,
               loc |-> LET r == getOptimal2D(gx, gy, m) IN <<r[1], r[2], 1>>]

CallOptimal3D ==
    /\ UNCHANGED <<kind, objs, nextH, rel, acq, raw, mem, pending, mapped, out, prog, files, args,
                 trace, last, prev>>
    /\ nd.fn = "none"
    /\ \E gx \in 1..MaxGlobal3, gy \in 1..MaxGlobal3, gz \in 1..MaxGlobal3,
       m \in WorkGroupSizes :
        nd' = [fn |-> "3D", g |-> <<gx, gy, gz>>, max |-> m, pm |-> 1,
               loc |-> getOptimal3D(gx, gy, gz, m)]

\* ---- the loops of the NDRange functions, one iteration at a time ------

\* Bound of the extents the loops are run on, zero included.
MaxLoopGlobal == 18

\* Values the introspection hands back here, zero included.
LoopLimits == {0, 1, 2, 3, 64, 256}
LoopMultiples == {0, 1, 2, 3}
LoopExtents == 0..MaxLoopGlobal

\* Where a call stands: in one of its loops, or returned (fn names the
\* function), or stopped by the trap of an integer division by zero.
LoopPcs ==
    {"1D:scale", "1D:scan", "divisor:scan", "2D:x", "2D:y", "2D:halve",
     "3D:x", "3D:y", "3D:z", "3D:halve"}
Returned == {"1D", "2D", "3D", "findBestDivisor"}

At(n, pc, loc) == [n EXCEPT !.fn = pc, !.loc = loc]

\* One test of
\*   while (global % local != 0 && local > 1) local--;
\* on component d, going on to the loop named next when it exits. With local
\* 0 the remainder is undefined: the division traps, or it yields some value
\* and local > 1 ends the loop.
DivisibleStep(n, d, next) ==
    LET global == n.g[d]
        local == n.loc[d]
    IN  IF local = 0
        THEN {At(n, "trap", n.loc), At(n, next, n.loc)}
        ELSE IF global % local # 0 /\ local > 1
        THEN {At(n, n.fn, [n.loc EXCEPT ![d] = local - 1])}
        ELSE {At(n, next, n.loc)}

\* One test of for (i = min(number, max_value); i >= 1; i--) if (number % i == 0)
\* return i; and return 1 after it; i is kept in loc[2].
ScanStep(n) ==
    LET number == n.g[1]
        i == n.loc[2]
        returns(best) ==
            IF n.fn = "divisor:scan"
            THEN At(n, "findBestDivisor", <<best, 1, 1>>)
            ELSE At(n, "1D", <<Max(1, Min(SnapToMultiple(best, n.pm), n.max)), 1, 1>>)
    IN  IF i >= 1
        THEN IF number % i = 0
             THEN {returns(i)}
             ELSE {At(n, n.fn, [n.loc EXCEPT ![2] = i - 1])}
        ELSE {returns(1)}

\* The states one more test of the loop the call stands in can lead to.
LoopStep(n) ==
    LET lx == n.loc[1]
        ly == n.loc[2]
        lz == n.loc[3]
    IN  CASE n.fn = "1D:scale" ->
               IF lx * 2 <= n.max /\ lx * 2 <= Ceiling1D
               THEN {At(n, n.fn, <<lx * 2, 1, 1>>)}
               ELSE {At(n, "1D:scan", <<lx, Min(n.g[1], lx), 1>>)}
          [] n.fn \in {"1D:scan", "divisor:scan"} -> ScanStep(n)
          [] n.fn = "2D:x" -> DivisibleStep(n, 1, "2D:y")
          [] n.fn = "2D:y" -> DivisibleStep(n, 2, "2D:halve")
          [] n.fn = "2D:halve" ->
               IF lx * ly > n.max
               THEN IF lx > ly
                    THEN {At(n, n.fn, <<lx \div 2, ly, 1>>)}
                    ELSE {At(n, n.fn, <<lx, ly \div 2, 1>>)}
               ELSE {At(n, "2D", n.loc)}
          [] n.fn = "3D:x" -> DivisibleStep(n, 1, "3D:y")
          [] n.fn = "3D:y" -> DivisibleStep(n, 2, "3D:z")
          [] n.fn = "3D:z" -> DivisibleStep(n, 3, "3D:halve")
          [] n.fn = "3D:halve" ->
               IF lx * ly * lz > n.max
               THEN IF lx >= ly /\ lx >= lz
                    THEN {At(n, n.fn, <<Max(1, lx \div 2), ly, lz>>)}
                    ELSE IF ly >= lz
                         THEN {At(n, n.fn, <<lx, Max(1, ly \div 2), lz>>)}
                         ELSE {At(n, n.fn, <<lx, ly, Max(1, lz \div 2)>>)}
               ELSE {At(n, "3D", n.loc)}
          [] OTHER -> {n}

NDFrame ==
    UNCHANGED <<kind, objs, nextH, rel, acq, raw, mem, pending, mapped, out, prog, files,
                args, trace, last, prev>>

\* getOptimal1D is entered: local_size = preferred_multiple.
EnterOptimal1D ==
    /\ nd.fn = "none"
    /\ \E g \in LoopExtents, m \in LoopLimits, p \in LoopMultiples :
          nd' = [fn |-> "1D:scale", g |-> <<g, 1, 1>>, max |-> m, pm |-> p,
                 loc |-> <<p, 1, 1>>]
    /\ NDFrame

\* findBestDivisor(number, max_value) is entered: i = min(number, max_value).
EnterFindBestDivisor ==
    /\ nd.fn = "none"
    /\ \E number \in LoopExtents, max_value \in LoopExtents :
          nd' = [fn |-> "divisor:scan", g |-> <<number, 1, 1>>, max |-> max_value,
                 pm |-> 1, loc |-> <<1, Min(number, max_value), 1>>]
    /\ NDFrame

\* getOptimal2D is entered: the first candidate that fits is returned, else
\* local = min(16, global) on each axis and the fallback loops start.
EnterOptimal2D ==
    /\ nd.fn = "none"
    /\ \E gx \in LoopExtents, gy \in LoopExtents, m \in LoopLimits :
          LET ok == {i \in 1..Len(Candidates2D) : Fits2D(Candidates2D[i], gx, gy, m)}
              first == Candidates2D[CHOOSE i \in ok : \A j \in ok : i <= j]
              n == [fn |-> "2D:x", g |-> <<gx, gy, 1>>, max |-> m, pm |-> 1,
                    loc |-> <<Min(16, gx), Min(16, gy), 1>>]
          IN  nd' = IF ok # {} THEN At(n, "2D", <<first[1], first[2], 1>>) ELSE n
    /\ NDFrame

\* getOptimal3D is entered, likewise with min(4, global).
EnterOptimal3D ==
    /\ nd.fn = "none"
    /\ \E gx \in LoopExtents, gy \in {0, 1, 4}, gz \in {0, 1, 4}, m \in LoopLimits :
          LET ok == {i \in 1..Len(Candidates3D) : Fits3D(Candidates3D[i], gx, gy, gz, m)}
              first == Candidates3D[CHOOSE i \in ok : \A j \in ok : i <= j]
              n == [fn |-> "3D:x", g |-> <<gx, gy, gz>>, max |-> m, pm |-> 1,
                    loc |-> <<Min(4, gx), Min(4, gy), Min(4, gz)>>]
          IN  nd' = IF ok # {} THEN At(n, "3D", first) ELSE n
    /\ NDFrame

\* The call makes one more test of the loop it stands in.
LoopIteration ==
    /\ nd.fn \in LoopPcs
    /\ nd' \in LoopStep(nd)
    /\ NDFrame

(***************************************************************************)
(* Handle-owning wrappers: construction, move, destruction                 *)
(***************************************************************************)

\* Bounds: wrapper objects alive at once, native handles the layer hands out,
\* wrappers constructed on one handle.
NSlots == 2
MaxHandles == 2
MaxAcquire == 2

Slots == 1..NSlots
Handles == 1..MaxHandles
Kinds == {"Context", "CommandQueue", "Program", "Kernel", "Event", "Buffer"}

\* A slot holding no object, and the default-constructed (null handle) object.
Absent == [live |-> FALSE, h |-> 0, size |-> 0, cap |-> 0]
Empty == [live |-> TRUE, h |-> 0, size |-> 0, cap |-> 0]
Owner(handle) == [live |-> TRUE, h |-> handle, size |-> 0, cap |-> 0]

\* nat is the status the failing native call of the operation reported ("none"
\* when every native call it made succeeded, or it made none), code the status
\* the raised Error carries, log the text appended to its description, ev
\* whether the call handed the enqueue an event to fill in for its caller.
NoOp ==
    [op |-> "none", b |-> 0, b2 |-> 0, st |-> "ok", blk |-> TRUE, data |-> <<>>,
     off |-> 0, off2 |-> 0, cnt |-> 0, val |-> 0, pre |-> Absent, pre2 |-> Absent,
     olen |-> 0, nat |-> "none", code |-> "none", log |-> "", ev |-> FALSE]

\* The record of a host call on wrapper b (and b2), taken before the call acts:
\* the wrappers and the length of the caller's vector as the call finds them.
Call(op, b, b2, st) ==
    [NoOp EXCEPT !.op = op, !.b = b, !.b2 = b2, !.st = st,
                 !.pre = objs[b], !.pre2 = IF b2 = 0 THEN Absent ELSE objs[b2],
                 !.olen = Len(out)]

\* History: which successful blocking data operation the last host call was,
\* or the writeAsync it was, with the vector it was given, or the saveBinary,
\* with the bytes the native layer returned to it.
Summary(l) ==
    IF l.st = "ok" /\ l.blk /\ l.op \in {"write", "fill", "copyFrom", "copyTo"}
    THEN [kind |-> l.op, b |-> l.b, b2 |-> l.b2, cnt |-> l.cnt, off |-> l.off,
          data |-> <<>>]
    ELSE IF l.st = "ok" /\ l.op \in {"writeAsync", "saveBinary"}
    THEN [kind |-> l.op, b |-> l.b, b2 |-> 0, cnt |-> 0, off |-> 0, data |-> l.data]
    ELSE [kind |-> "other", b |-> 0, b2 |-> 0, cnt |-> 0, off |-> 0, data |-> <<>>]

\* History: the operation, the wrappers it was called on and its outcome.
Label(l) == [NoOp EXCEPT !.op = l.op, !.b = l.b, !.b2 = l.b2, !.st = l.st]

\* trace is "calls" (each call kept whole), "ops" (its label only) or "off".
Record(l) ==
    /\ trace' = trace
    /\ CASE trace = "calls" -> last' = l /\ prev' = Summary(last)
         [] trace = "ops" -> last' = Label(l) /\ prev' = prev
         [] OTHER -> UNCHANGED <<last, prev>>

\* handle_ = handle: one more wrapper has been constructed on it.
Acquired(handle) == IF handle # 0 THEN [acq EXCEPT ![handle] = @ + 1] ELSE acq

\* clRelease*(handle): one more release call on it.
Released(handle) == [rel EXCEPT ![handle] = @ + 1]

\* A destructor that releases nothing.
NeverReleased(handle) == rel

\* if (handle_) clRelease*(handle_);
ReleaseIfSet(handle) == IF handle # 0 THEN Released(handle) ELSE rel

\* other.handle_ = nullptr (Buffer: other.size_ = 0; other.capacity_ = 0 too)
MovedFrom(o) == Empty

\* X::X() : handle_(nullptr) {}
DefaultConstruct(k, s) ==
    /\ kind = k
    /\ ~objs[s].live
    /\ objs' = [objs EXCEPT ![s] = Empty]
    /\ Record(Call("default", s, 0, "ok"))
    /\ UNCHANGED <<kind, nextH, rel, acq, raw>>
    /\ UNCHANGED <<nd, prog, files, args, mem, pending, mapped, out>>

\* handle_ = clCreate*(..., &err); checkError(err, ...);
\* a failed create throws out of the constructor: no object comes to exist.
NativeConstruct(k, s) ==
    /\ kind = k
    /\ ~objs[s].live
    /\ \E ok \in BOOLEAN :
          IF ok /\ nextH <= MaxHandles
          THEN /\ objs' = [objs EXCEPT ![s] = Owner(nextH)]
               /\ acq' = Acquired(nextH)
               /\ nextH' = nextH + 1
               /\ Record(Call("construct", s, 0, "ok"))
          ELSE /\ UNCHANGED <<objs, acq, nextH>>
               /\ Record(Call("construct", s, 0, "NativeError"))
    /\ UNCHANGED <<kind, rel, raw>>
    /\ UNCHANGED <<nd, prog, files, args, mem, pending, mapped, out>>

\* the argument check some constructors make before the native call
RejectConstruct(k, s) ==
    /\ kind = k
    /\ ~objs[s].live
    /\ Record(Call("construct", s, 0, "InvalidArgument"))
    /\ UNCHANGED <<kind, objs, nextH, rel, acq, raw>>
    /\ UNCHANGED <<nd, prog, files, args, mem, pending, mapped, out>>

\* X::~X() { if (handle_) clRelease*(handle_); }
Destroy(k, s) ==
    /\ kind = k
    /\ objs[s].live
    /\ rel' = ReleaseIfSet(objs[s].h)
    /\ objs' = [objs EXCEPT ![s] = Absent]
    /\ Record(Call("destroy", s, 0, "ok"))
    /\ UNCHANGED <<kind, nextH, acq, raw>>
    /\ UNCHANGED <<nd, prog, files, args, mem, pending, mapped, out>>

\* X::X(X&& other) noexcept : handle_(other.handle_) { other.handle_ = nullptr; }
MoveConstruct(k, d, s) ==
    /\ kind = k
    /\ ~objs[d].live
    /\ objs[s].live
    /\ objs' = [objs EXCEPT ![d] = objs[s], ![s] = MovedFrom(objs[s])]
    /\ Record(Call("moveConstruct", d, s, "ok"))
    /\ UNCHANGED <<kind, nextH, rel, acq, raw>>
    /\ UNCHANGED <<nd, prog, files, args, mem, pending, mapped, out>>

\* X& operator=(X&& other) noexcept:
\*   if (this != &other) { if (handle_) clRelease*(handle_);
\*                         handle_ = other.handle_; other.handle_ = nullptr; }
MoveAssign(k, d, s) ==
    /\ kind = k
    /\ objs[d].live
    /\ objs[s].live
    /\ IF d # s
       THEN /\ rel' = ReleaseIfSet(objs[d].h)
            /\ objs' = [objs EXCEPT ![d] = objs[s], ![s] = MovedFrom(objs[s])]
       ELSE UNCHANGED <<objs, rel>>
    /\ Record(Call("moveAssign", d, s, "ok"))
    /\ UNCHANGED <<kind, nextH, acq, raw>>
    /\ UNCHANGED <<nd, prog, files, args, mem, pending, mapped, out>>

ContextCreate ==
    \E s \in Slots : DefaultConstruct("Context", s) \/ NativeConstruct("Context", s) \/ RejectConstruct("Context", s)

ContextDestroy == \E s \in Slots : Destroy("Context", s)

ContextMoveConstruct == \E d, s \in Slots : MoveConstruct("Context", d, s)

ContextMoveAssign == \E d, s \in Slots : MoveAssign("Context", d, s)

CommandQueueCreate ==
    \E s \in Slots : DefaultConstruct("CommandQueue", s) \/ NativeConstruct("CommandQueue", s)

CommandQueueDestroy == \E s \in Slots : Destroy("CommandQueue", s)

CommandQueueMoveConstruct == \E d, s \in Slots : MoveConstruct("CommandQueue", d, s)

CommandQueueMoveAssign == \E d, s \in Slots : MoveAssign("CommandQueue", d, s)

ProgramCreate ==
    \E s \in Slots : DefaultConstruct("Program", s) \/ NativeConstruct("Program", s) \/ RejectConstruct("Program", s)

ProgramDestroy == \E s \in Slots : Destroy("Program", s)

ProgramMoveConstruct == \E d, s \in Slots : MoveConstruct("Program", d, s)

ProgramMoveAssign == \E d, s \in Slots : MoveAssign("Program", d, s)

KernelCreate ==
    \E s \in Slots : DefaultConstruct("Kernel", s) \/ NativeConstruct("Kernel", s)

KernelDestroy == \E s \in Slots : Destroy("Kernel", s)

KernelMoveConstruct == \E d, s \in Slots : MoveConstruct("Kernel", d, s)

KernelMoveAssign == \E d, s \in Slots : MoveAssign("Kernel", d, s)

\* clEnqueue*(..., &event): the native layer hands the caller a new event, which
\* the caller owns until it wraps it in an Event.
NativeEventCreated ==
    /\ kind = "Event"
    /\ nextH <= MaxHandles
    /\ raw' = raw \cup {nextH}
    /\ nextH' = nextH + 1
    /\ Record([NoOp EXCEPT !.op = "enqueue"])
    /\ UNCHANGED <<kind, objs, rel, acq>>
    /\ UNCHANGED <<nd, prog, files, args, mem, pending, mapped, out>>

\* The cl_event values a caller can pass: a reference it owns (handed over to
\* the wrapper), what get() returns on a live Event, or null.
EventValues == raw \cup {objs[s].h : s \in {t \in Slots : objs[t].live}} \cup {0}

\* Event::Event(cl_event event) : event_(event) {}
\* The wrapper adopts the value as it is: no clRetainEvent.
EventAdopt(s) ==
    /\ kind = "Event"
    /\ ~objs[s].live
    /\ \E event \in EventValues :
          /\ event # 0 => acq[event] < MaxAcquire
          /\ objs' = [objs EXCEPT ![s] = Owner(event)]
          /\ acq' = Acquired(event)
          /\ raw' = raw \ {event}
          /\ Record([Call("construct", s, 0, "ok") EXCEPT !.val = event])
    /\ UNCHANGED <<kind, nextH, rel>>
    /\ UNCHANGED <<nd, prog, files, args, mem, pending, mapped, out>>

EventCreate == \E s \in Slots : DefaultConstruct("Event", s) \/ EventAdopt(s)

EventDestroy == \E s \in Slots : Destroy("Event", s)

EventMoveConstruct == \E d, s \in Slots : MoveConstruct("Event", d, s)

EventMoveAssign == \E d, s \in Slots : MoveAssign("Event", d, s)

(***************************************************************************)
(* Buffer<T>                                                               *)
(***************************************************************************)

\* Bounds: bits of size_t in the model, largest element count of a buffer,
\* commands in flight.
WordBits == 4
MaxCap == 2
MaxPending == 2

\* The most kernel dispatches in flight.
MaxDispatches == 1

\* sizeof(T) of the element type the buffer is instantiated with
SizeofT == 2

Word == 2 ^ WordBits
SizeMax == Word - 1

\* size_t arithmetic
Wrap(n) == n % Word
Bytes(n) == Wrap(n * SizeofT)

\* Element values; T() is 0.
Elems == {0, 1}
SeqsOfLen(n) == [1..n -> Elems]
SeqsUpTo(n) == UNION {SeqsOfLen(k) : k \in 0..n}

\* Arguments of the calls: host vectors of up to one element more than the
\* largest capacity, their elements alternating from v on.
Pattern(n, v) == [i \in 1..n |-> (v + i - 1) % 2]
DataIn == {Pattern(n, v) : n \in 0..(MaxCap + 1), v \in Elems}
Offsets == {0, 1, SizeMax}
Counts == (0..MaxCap) \cup {SizeMax}

\* The host cannot allocate a vector of more elements than this.
HostMax == MaxCap + 2

\* A vector of n value-initialised elements, whatever v is.
RepeatDefault(n, v) == [i \in 1..n |-> 0]

Repeat(n, v) == [i \in 1..n |-> v]

\* std::vector<T>::resize(n)
Resize(v, n) == [i \in 1..n |-> IF i <= Len(v) THEN v[i] ELSE 0]

\* s with d laid over it from element off (0-based) on
Overlay(s, off, d) ==
    [i \in 1..Len(s) |-> IF off < i /\ i <= off + Len(d) THEN d[i - off] ELSE s[i]]

\* ---- the native layer ------------------------------------------------

MemBytes(h) == Len(mem[h]) * SizeofT

\* the region (offset, size), in bytes, lies within the memory object
NativeInRange(h, off, n) ==
    /\ h # 0
    /\ Bytes(off) + Bytes(n) <= MemBytes(h)

\* clEnqueueCopyBuffer: both regions in range, no overlap within one object
NativeCopyInRange(hd, hs, soff, doff, n) ==
    /\ NativeInRange(hs, soff, n)
    /\ NativeInRange(hd, doff, n)
    /\ \/ hd # hs
       \/ Bytes(soff) + Bytes(n) <= Bytes(doff)
       \/ Bytes(doff) + Bytes(n) <= Bytes(soff)

ElemsOf(bytes) == bytes \div SizeofT

WriteCmd(h, off, data) ==
    [k |-> "write", h |-> h, h2 |-> 0, off |-> ElemsOf(Bytes(off)), off2 |-> 0,
     n |-> ElemsOf(Bytes(Len(data))),
     data |-> SubSeq(data, 1, ElemsOf(Bytes(Len(data))))]

ReadCmd(h, off, n) ==
    [k |-> "read", h |-> h, h2 |-> 0, off |-> ElemsOf(Bytes(off)), off2 |-> 0,
     n |-> ElemsOf(Bytes(n)), data |-> <<>>]

\* A copy command that drops the source offset.
CopyCmdFromStart(hd, hs, soff, doff, n) ==
    [k |-> "copy", h |-> hd, h2 |-> hs, off |-> ElemsOf(Bytes(doff)),
     off2 |-> 0, n |-> ElemsOf(Bytes(n)), data |-> <<>>]

CopyCmd(hd, hs, soff, doff, n) ==
    [k |-> "copy", h |-> hd, h2 |-> hs, off |-> ElemsOf(Bytes(doff)),
     off2 |-> ElemsOf(Bytes(soff)), n |-> ElemsOf(Bytes(n)), data |-> <<>>]

\* The device executes one command: its effect on device memory and on the
\* host vector a read fills.
ExecMem(c, m) ==
    CASE c.k = "write" -> [m EXCEPT ![c.h] = Overlay(@, c.off, c.data)]
      [] c.k = "copy" ->
            [m EXCEPT ![c.h] = Overlay(@, c.off, SubSeq(m[c.h2], c.off2 + 1, c.off2 + c.n))]
      [] OTHER -> m

ExecOut(c, m, o) ==
    IF c.k = "read"
    THEN Overlay(o, 0, SubSeq(m[c.h], c.off + 1, c.off + c.n))
    ELSE o

\* An in-order queue executes its commands in submission order.
RECURSIVE RunAll(_, _, _)
RunAll(cmds, m, o) ==
    IF cmds = <<>>
    THEN [mem |-> m, out |-> o]
    ELSE RunAll(Tail(cmds), ExecMem(Head(cmds), m), ExecOut(Head(cmds), m, o))

\* A command is submitted; a blocking call returns once it has completed
\* (and, the queue being in order, all commands before it).
Enqueue(cmd, blocking, o) ==
    IF blocking
    THEN LET r == RunAll(Append(pending, cmd), mem, o)
         IN  /\ mem' = r.mem
             /\ out' = r.out
             /\ pending' = <<>>
    ELSE /\ pending' = Append(pending, cmd)
         /\ mem' = mem
         /\ out' = o

\* clFinish(queue)
Finish(o) ==
    LET r == RunAll(pending, mem, o)
    IN  /\ mem' = r.mem
        /\ out' = r.out
        /\ pending' = <<>>

\* A device that runs the command submitted last before the ones ahead of it.
DeviceStepNewestFirst ==
    /\ pending # <<>>
    /\ mem' = ExecMem(pending[Len(pending)], mem)
    /\ out' = ExecOut(pending[Len(pending)], mem, out)
    /\ pending' = SubSeq(pending, 1, Len(pending) - 1)
    /\ UNCHANGED <<nd, prog, files, args, kind, objs, nextH, rel, acq, raw, mapped, trace, last, prev>>

\* The device completes the command at the head of the queue.
DeviceStep ==
    /\ pending # <<>>
    /\ mem' = ExecMem(Head(pending), mem)
    /\ out' = ExecOut(Head(pending), mem, out)
    /\ pending' = Tail(pending)
    /\ UNCHANGED <<nd, prog, files, args, kind, objs, nextH, rel, acq, raw, mapped, trace, last, prev>>

\* The caller keeps its side of the contract: a vector a non-blocking read is
\* to fill is not handed to another call before that read completes.
OutFree == \A i \in 1..Len(pending) : pending[i].k # "read"

CanSubmit(blocking) == blocking \/ Len(pending) < MaxPending

\* ---- construction, move, destruction ---------------------------------

IsBuffer(b) == kind = "Buffer" /\ objs[b].live

\* Buffer() : buffer_(nullptr), size_(0), capacity_(0) {}
BufferDefault(s) == DefaultConstruct("Buffer", s)

\* clCreateBuffer(context, flags, count * sizeof(T), host_ptr, &err): the
\* allocation the native layer makes, or none when it reports an error
\* (a size of 0 bytes is one).
NativeAlloc(count) ==
    IF nextH <= MaxHandles /\ Bytes(count) > 0 THEN {Bytes(count)} ELSE {}

\* Buffer(context, count, flags) : size_(count), capacity_(count)
BufferCreateCount(s, count) ==
    /\ kind = "Buffer"
    /\ ~objs[s].live
    /\ \E ok \in BOOLEAN :
          IF ok /\ NativeAlloc(count) # {}
          THEN /\ objs' = [objs EXCEPT ![s] =
                              [live |-> TRUE, h |-> nextH, size |-> count, cap |-> count]]
               /\ \E init \in SeqsOfLen(ElemsOf(Bytes(count))) :
                      mem' = [mem EXCEPT ![nextH] = init]
               /\ acq' = Acquired(nextH)
               /\ nextH' = nextH + 1
               /\ Record([Call("create", s, 0, "ok") EXCEPT !.cnt = count])
          ELSE /\ UNCHANGED <<objs, mem, acq, nextH>>
               /\ Record([Call("create", s, 0, "NativeError") EXCEPT !.cnt = count])
    /\ UNCHANGED <<nd, prog, files, args, kind, rel, raw, pending, mapped, out>>

\* Buffer(context, data, flags) : size_(data.size()), capacity_(data.size())
\* with CL_MEM_COPY_HOST_PTR: the allocation starts as a copy of data.
BufferCreateData(s, data) ==
    /\ kind = "Buffer"
    /\ ~objs[s].live
    /\ \E ok \in BOOLEAN :
          IF ok /\ NativeAlloc(Len(data)) # {}
          THEN /\ objs' = [objs EXCEPT ![s] =
                              [live |-> TRUE, h |-> nextH, size |-> Len(data),
                               cap |-> Len(data)]]
               /\ mem' = [mem EXCEPT ![nextH] =
                              SubSeq(data, 1, ElemsOf(Bytes(Len(data))))]
               /\ acq' = Acquired(nextH)
               /\ nextH' = nextH + 1
               /\ Record([Call("createData", s, 0, "ok") EXCEPT !.data = data])
          ELSE /\ UNCHANGED <<objs, mem, acq, nextH>>
               /\ Record([Call("createData", s, 0, "NativeError") EXCEPT !.data = data])
    /\ UNCHANGED <<nd, prog, files, args, kind, rel, raw, pending, mapped, out>>

\* clReleaseMemObject(h): the native layer frees the memory object once its
\* last reference is gone and no command in flight uses it.
InFlight(h) == \E i \in 1..Len(pending) : h \in {pending[i].h, pending[i].h2}

MemAfterRelease(h) ==
    IF h # 0 /\ ~InFlight(h) THEN [mem EXCEPT ![h] = <<>>] ELSE mem

MappedAfterRelease(h) == IF InFlight(h) THEN mapped ELSE mapped \ {h}

\* ~Buffer() { if (buffer_) clReleaseMemObject(buffer_); }
BufferDestroy(s) ==
    /\ IsBuffer(s)
    /\ rel' = ReleaseIfSet(objs[s].h)
    /\ mem' = MemAfterRelease(objs[s].h)
    /\ mapped' = MappedAfterRelease(objs[s].h)
    /\ objs' = [objs EXCEPT ![s] = Absent]
    /\ Record(Call("destroy", s, 0, "ok"))
    /\ UNCHANGED <<nd, prog, files, args, kind, nextH, acq, raw, pending, out>>

\* buffer_(other.buffer_), size_(other.size_), capacity_(other.capacity_)
BufferTaken(other) ==
    [live |-> TRUE, h |-> other.h, size |-> other.size, cap |-> other.cap]

\* A move that leaves other as it was.
BufferMovedFromKeepsAll(other) == other

\* other.buffer_ = nullptr; other.size_ = 0; other.capacity_ = 0;
BufferMovedFrom(other) ==
    [live |-> TRUE, h |-> 0, size |-> 0, cap |-> 0]

\* Buffer(Buffer&& other) noexcept
BufferMoveConstruct(d, s) ==
    /\ kind = "Buffer"
    /\ ~objs[d].live
    /\ objs[s].live
    /\ objs' = [objs EXCEPT ![d] = BufferTaken(objs[s]), ![s] = BufferMovedFrom(objs[s])]
    /\ Record(Call("moveConstruct", d, s, "ok"))
    /\ UNCHANGED <<nd, prog, files, args, kind, nextH, rel, acq, raw, mem, pending, mapped, out>>

\* Buffer& operator=(Buffer&& other) noexcept
BufferMoveAssign(d, s) ==
    /\ IsBuffer(d)
    /\ objs[s].live
    /\ IF d # s
       THEN /\ rel' = ReleaseIfSet(objs[d].h)
            /\ mem' = MemAfterRelease(objs[d].h)
            /\ mapped' = MappedAfterRelease(objs[d].h)
            /\ objs' = [objs EXCEPT ![d] = BufferTaken(objs[s]),
                                    ![s] = BufferMovedFrom(objs[s])]
       ELSE UNCHANGED <<objs, rel, mem, mapped>>
    /\ Record(Call("moveAssign", d, s, "ok"))
    /\ UNCHANGED <<nd, prog, files, args, kind, nextH, acq, raw, pending, out>>

\* ---- writes ----------------------------------------------------------

\* A write without the capacity check.
CapacityUnchecked(len, cap) == TRUE

\* if (data.size() > capacity_) throw
CapacityOk(len, cap) == ~(len > cap)

\* if (offset + data.size() > capacity_) throw      (size_t arithmetic)
OffsetCapacityOk(off, len, cap) == ~(Wrap(off + len) > cap)

\* if (offset + count > size_) throw                (size_t arithmetic)
ReadRangeOk(off, cnt, size) == ~(Wrap(off + cnt) > size)

\* A write that forgets size_ = data.size().
SizeKept(size, len) == size

\* size_ = data.size();
SizeAfterWrite(size, len) == len

HostFrame == UNCHANGED <<nd, prog, files, args, kind, nextH, rel, acq, raw, mapped>>

\* The body of write(queue, data, blocking) and writeAsync(queue, data, event):
\* the capacity check, the size update, then the native enqueue. sent is what
\* the device finds at data.data() when it copies.
FullWrite(l, b, data, sent, blocking) ==
    IF ~CapacityOk(Len(data), objs[b].cap)
    THEN /\ Record([l EXCEPT !.st = "CapacityExceeded"])
         /\ UNCHANGED <<objs, mem, pending, out>>
    ELSE /\ objs' = [objs EXCEPT ![b].size = SizeAfterWrite(@, Len(data))]
         /\ \E ok \in BOOLEAN :
               IF ok /\ NativeInRange(objs[b].h, 0, Len(data))
               THEN /\ Enqueue(WriteCmd(objs[b].h, 0, sent), blocking, out)
                    /\ Record(l)
               ELSE /\ Record([l EXCEPT !.st = "NativeError"])
                    /\ UNCHANGED <<mem, pending, out>>

\* void write(queue, const std::vector<T>& data, bool blocking)
BufferWrite(b, data, blocking) ==
    /\ IsBuffer(b)
    /\ CanSubmit(blocking)
    /\ FullWrite([Call("write", b, 0, "ok") EXCEPT !.data = data, !.blk = blocking],
                 b, data, data, blocking)
    /\ HostFrame

\* void writeAsync(queue, const std::vector<T>& data, cl_event& event)
BufferWriteAsync(b, data) ==
    /\ IsBuffer(b)
    /\ CanSubmit(FALSE)
    /\ FullWrite([Call("writeAsync", b, 0, "ok") EXCEPT
                      !.data = data, !.blk = FALSE, !.ev = TRUE],
                 b, data, data, FALSE)
    /\ HostFrame

\* A write at an offset that stretches the logical size over what it wrote.
SizeExtended(size, off, len) == Max(size, off + len)

\* The offset and raw-pointer writes make no assignment to size_.
SizeAfterOffsetWrite(size, off, len) == size

\* The body of the offset and raw-pointer writes.
OffsetWrite(l, b, data, off, blocking) ==
    IF ~OffsetCapacityOk(off, Len(data), objs[b].cap)
    THEN /\ Record([l EXCEPT !.st = "CapacityExceeded"])
         /\ UNCHANGED <<objs, mem, pending, out>>
    ELSE /\ objs' = [objs EXCEPT ![b].size = SizeAfterOffsetWrite(@, off, Len(data))]
         /\ \E ok \in BOOLEAN :
               IF ok /\ NativeInRange(objs[b].h, off, Len(data))
               THEN /\ Enqueue(WriteCmd(objs[b].h, off, data), blocking, out)
                    /\ Record(l)
               ELSE /\ Record([l EXCEPT !.st = "NativeError"])
                    /\ UNCHANGED <<mem, pending, out>>

\* void write(queue, const std::vector<T>& data, size_t offset, bool blocking)
BufferWriteOffset(b, data, off, blocking) ==
    /\ IsBuffer(b)
    /\ CanSubmit(blocking)
    /\ OffsetWrite([Call("writeOffset", b, 0, "ok") EXCEPT
                        !.data = data, !.off = off, !.blk = blocking],
                   b, data, off, blocking)
    /\ HostFrame

\* void write(queue, const T* data, size_t count, size_t offset, bool blocking)
\* data points at count elements.
BufferWritePtr(b, data, off, blocking) ==
    /\ IsBuffer(b)
    /\ CanSubmit(blocking)
    /\ OffsetWrite([Call("writePtr", b, 0, "ok") EXCEPT
                        !.data = data, !.off = off, !.blk = blocking],
                   b, data, off, blocking)
    /\ HostFrame

\* void fill(queue, const T& value, bool blocking):
\*   std::vector<T> temp(size_, value); write(queue, temp, blocking);
\* temp dies when fill returns: a command still in flight then copies from
\* freed memory, whatever that holds.
BufferFill(b, value, blocking) ==
    /\ IsBuffer(b)
    /\ CanSubmit(blocking)
    /\ LET temp == Repeat(objs[b].size, value)
           l == [Call("fill", b, 0, "ok") EXCEPT
                     !.data = temp, !.val = value, !.blk = blocking]
       IN  \E sent \in (IF blocking THEN {temp} ELSE SeqsOfLen(Len(temp))) :
               FullWrite(l, b, temp, sent, blocking)
    /\ HostFrame

\* ---- reads -----------------------------------------------------------

\* The body of read(queue, data, blocking) and readAsync(queue, data, event).
FullRead(l, b, blocking) ==
    LET resized == Resize(out, objs[b].size)
    IN  \E ok \in BOOLEAN :
            IF ok /\ NativeInRange(objs[b].h, 0, objs[b].size)
            THEN /\ Enqueue(ReadCmd(objs[b].h, 0, objs[b].size), blocking, resized)
                 /\ Record(l)
            ELSE /\ out' = resized
                 /\ Record([l EXCEPT !.st = "NativeError"])
                 /\ UNCHANGED <<mem, pending>>

\* void read(queue, std::vector<T>& data, bool blocking)
BufferRead(b, blocking) ==
    /\ IsBuffer(b)
    /\ CanSubmit(blocking)
    /\ OutFree
    /\ FullRead([Call("read", b, 0, "ok") EXCEPT !.blk = blocking], b, blocking)
    /\ UNCHANGED objs
    /\ HostFrame

\* void readAsync(queue, std::vector<T>& data, cl_event& event)
BufferReadAsync(b) ==
    /\ IsBuffer(b)
    /\ CanSubmit(FALSE)
    /\ OutFree
    /\ FullRead([Call("readAsync", b, 0, "ok") EXCEPT !.blk = FALSE, !.ev = TRUE],
                b, FALSE)
    /\ UNCHANGED objs
    /\ HostFrame

\* void read(queue, std::vector<T>& data, size_t count, size_t offset, bool blocking)
BufferReadPart(b, cnt, off, blocking) ==
    /\ IsBuffer(b)
    /\ CanSubmit(blocking)
    /\ OutFree
    /\ LET l == [Call("readPart", b, 0, "ok") EXCEPT
                     !.cnt = cnt, !.off = off, !.blk = blocking]
       IN  IF ~ReadRangeOk(off, cnt, objs[b].size)
           THEN /\ Record([l EXCEPT !.st = "RangeExceeded"])
                /\ UNCHANGED <<mem, pending, out>>
           ELSE IF cnt > HostMax
           THEN \* data.resize(count) cannot allocate
                /\ Record([l EXCEPT !.st = "BadAlloc"])
                /\ UNCHANGED <<mem, pending, out>>
           ELSE \E ok \in BOOLEAN :
                   IF ok /\ NativeInRange(objs[b].h, off, cnt)
                   THEN /\ Enqueue(ReadCmd(objs[b].h, off, cnt), blocking, Resize(out, cnt))
                        /\ Record(l)
                   ELSE /\ out' = Resize(out, cnt)
                        /\ Record([l EXCEPT !.st = "NativeError"])
                        /\ UNCHANGED <<mem, pending>>
    /\ UNCHANGED objs
    /\ HostFrame

\* void read(queue, T* data, size_t count, size_t offset, bool blocking)
\* data points at the caller's array, which holds at least count elements.
BufferReadPtr(b, cnt, off, blocking) ==
    /\ IsBuffer(b)
    /\ CanSubmit(blocking)
    /\ OutFree
    /\ cnt <= Len(out)
    /\ LET l == [Call("readPtr", b, 0, "ok") EXCEPT
                     !.cnt = cnt, !.off = off, !.blk = blocking]
       IN  IF ~ReadRangeOk(off, cnt, objs[b].size)
           THEN /\ Record([l EXCEPT !.st = "RangeExceeded"])
                /\ UNCHANGED <<mem, pending, out>>
           ELSE \E ok \in BOOLEAN :
                   IF ok /\ NativeInRange(objs[b].h, off, cnt)
                   THEN /\ Enqueue(ReadCmd(objs[b].h, off, cnt), blocking, out)
                        /\ Record(l)
                   ELSE /\ Record([l EXCEPT !.st = "NativeError"])
                        /\ UNCHANGED <<mem, pending, out>>
    /\ UNCHANGED objs
    /\ HostFrame

\* ---- device-side copy ------------------------------------------------

\* The body of dst.copyFrom(queue, src, count, src_offset, dst_offset, blocking):
\* the two range checks, clEnqueueCopyBuffer, then clFinish when blocking.
\* When clFinish reports an error the copy has been submitted: it has run, or
\* it never will.
CopyBody(l, dst, src, cnt, soff, doff, blocking) ==
    IF ~ReadRangeOk(soff, cnt, objs[src].size)
    THEN /\ Record([l EXCEPT !.st = "RangeExceeded"])
         /\ UNCHANGED <<mem, pending, out>>
    ELSE IF ~OffsetCapacityOk(doff, cnt, objs[dst].cap)
    THEN /\ Record([l EXCEPT !.st = "RangeExceeded"])
         /\ UNCHANGED <<mem, pending, out>>
    ELSE \E ok \in BOOLEAN :
            IF ok /\ NativeCopyInRange(objs[dst].h, objs[src].h, soff, doff, cnt)
            THEN LET cmd == CopyCmd(objs[dst].h, objs[src].h, soff, doff, cnt)
                 IN  IF blocking
                     THEN \E finished \in BOOLEAN :
                             IF finished
                             THEN /\ Enqueue(cmd, TRUE, out)
                                  /\ Record(l)
                             ELSE /\ \E ran \in BOOLEAN :
                                        IF ran
                                        THEN Enqueue(cmd, TRUE, out)
                                        ELSE UNCHANGED <<mem, pending, out>>
                                  /\ Record([l EXCEPT !.st = "NativeError"])
                     ELSE /\ Enqueue(cmd, FALSE, out)
                          /\ Record(l)
            ELSE /\ Record([l EXCEPT !.st = "NativeError"])
                 /\ UNCHANGED <<mem, pending, out>>

\* void copyFrom(queue, const Buffer<T>& src, count, src_offset, dst_offset, blocking)
BufferCopyFrom(b, src, cnt, soff, doff, blocking) ==
    /\ IsBuffer(b)
    /\ objs[src].live
    /\ CanSubmit(blocking)
    /\ CopyBody([Call("copyFrom", b, src, "ok") EXCEPT
                     !.cnt = cnt, !.off = doff, !.off2 = soff, !.blk = blocking],
                b, src, cnt, soff, doff, blocking)
    /\ UNCHANGED objs
    /\ HostFrame

\* void copyTo(queue, Buffer<T>& dst, count, src_offset, dst_offset, blocking)
\*   { dst.copyFrom(queue, *this, count, src_offset, dst_offset, blocking); }
BufferCopyTo(b, dst, cnt, soff, doff, blocking) ==
    /\ IsBuffer(b)
    /\ objs[dst].live
    /\ CanSubmit(blocking)
    /\ CopyBody([Call("copyTo", b, dst, "ok") EXCEPT
                     !.cnt = cnt, !.off = doff, !.off2 = soff, !.blk = blocking],
                dst, b, cnt, soff, doff, blocking)
    /\ UNCHANGED objs
    /\ HostFrame

\* ---- mapping ---------------------------------------------------------

\* T* map(queue, flags, blocking): clEnqueueMapBuffer over size_ * sizeof(T) bytes
BufferMap(b, blocking) ==
    /\ IsBuffer(b)
    /\ LET l == [Call("map", b, 0, "ok") EXCEPT !.blk = blocking]
       IN  \E ok \in BOOLEAN :
              IF ok /\ NativeInRange(objs[b].h, 0, objs[b].size) /\ objs[b].h \notin mapped
              THEN /\ mapped' = mapped \cup {objs[b].h}
                   /\ IF blocking THEN Finish(out) ELSE UNCHANGED <<mem, pending, out>>
                   /\ Record(l)
              ELSE /\ Record([l EXCEPT !.st = "NativeError"])
                   /\ UNCHANGED <<mem, pending, mapped, out>>
    /\ UNCHANGED <<nd, prog, files, args, kind, objs, nextH, rel, acq, raw>>

\* void unmap(queue, T* mapped_ptr): clEnqueueUnmapMemObject; what the host
\* stored through the pointer is in the buffer afterwards.
BufferUnmap(b) ==
    /\ IsBuffer(b)
    /\ LET l == Call("unmap", b, 0, "ok")
       IN  \E ok \in BOOLEAN :
              IF ok /\ objs[b].h \in mapped
              THEN /\ mapped' = mapped \ {objs[b].h}
                   /\ \E stored \in SeqsOfLen(Min(objs[b].size, Len(mem[objs[b].h]))) :
                          mem' = [mem EXCEPT ![objs[b].h] = Overlay(@, 0, stored)]
                   /\ Record(l)
              ELSE /\ Record([l EXCEPT !.st = "NativeError"])
                   /\ UNCHANGED <<mem, mapped>>
    /\ UNCHANGED <<nd, prog, files, args, kind, objs, nextH, rel, acq, raw, pending, out>>

(***************************************************************************)
(* Program: build, build log, binary cache                                 *)
(***************************************************************************)

\* The native program object behind a handle: whether clBuildProgram has run on
\* it and how it ended, and the build log the native layer keeps for it.
\* bin is the program binary it holds for the device, <<>> when it has none.
NotBuilt == [build |-> "none", log |-> "", bin |-> <<>>]
Built(log, bin) == [build |-> "built", log |-> log, bin |-> bin]
BuildFailed(log) == [build |-> "failed", log |-> log, bin |-> <<>>]

\* Program binaries, as byte sequences: the compiled elementwise add and the
\* compiled elementwise multiply.
AddBinary == <<1, 0, 26>>
MulBinary == <<2, 10>>
Binaries == {AddBinary, MulBinary}

\* What a dispatch of the kernel of a built program with this binary leaves in
\* its output buffer, given its two input buffers.
KernelResult(bin, a, b) ==
    CASE bin = AddBinary -> [i \in 1..Len(a) |-> a[i] + b[i]]
      [] bin = MulBinary -> [i \in 1..Len(a) |-> a[i] * b[i]]
      [] OTHER -> <<>>

\* Build logs of a successful build (nothing, or warnings) and of a failed one.
CleanLogs == {"", "warning"}
ErrorLogs == {"error"}

\* The cache file: not there, or there with the bytes it holds.
NoFile == [exists |-> FALSE, bytes |-> <<>>]
File(bytes) == [exists |-> TRUE, bytes |-> bytes]

\* A read that takes byte 26 for the end of the file.
FileReadText(content, n) ==
    LET stops == {i \in 1..n : content[i] = 26}
    IN  IF stops = {}
        THEN SubSeq(content, 1, n)
        ELSE SubSeq(content, 1, (CHOOSE i \in stops : \A j \in stops : i <= j) - 1)

\* std::ofstream(filepath, std::ios::binary); file.write(data, n): the file
\* holds the first n bytes of data.
FileWrite(data, n) == File(SubSeq(data, 1, n))

\* std::ifstream(filepath, std::ios::binary | std::ios::ate); file.read(data, n):
\* the first n bytes of the file.
FileRead(content, n) == SubSeq(content, 1, n)

\* Device() holds a null id, Device(id) a device of the platform.
DeviceValid == BOOLEAN

BuildOps == {"build", "buildOptimized", "buildDebug"}

\* The status clBuildProgram(program_, 1, &device_id, options, ...) reports.
BuildStatuses(h, device) ==
    IF h = 0 THEN {"CL_INVALID_PROGRAM"}
    ELSE IF ~device THEN {"CL_INVALID_DEVICE"}
    ELSE {"CL_SUCCESS", "CL_BUILD_PROGRAM_FAILURE"}

\* The status of clGetProgramBuildInfo(program_, device.id(), CL_PROGRAM_BUILD_LOG, ...)
BuildInfoStatus(h, device) ==
    IF h = 0 THEN "CL_INVALID_PROGRAM"
    ELSE IF ~device THEN "CL_INVALID_DEVICE"
    ELSE "CL_SUCCESS"

\* std::string Program::getBuildLog(device) const: both native statuses are
\* dropped. When the size query fails log_size is never written: the string is
\* built with an indeterminate length, which either throws (std::length_error,
\* std::bad_alloc) or yields NULs that the trailing-null loop strips.
getBuildLog(h, device) ==
    IF BuildInfoStatus(h, device) = "CL_SUCCESS"
    THEN {[thrown |-> FALSE, log |-> prog[h].log]}
    ELSE {[thrown |-> FALSE, log |-> ""], [thrown |-> TRUE, log |-> ""]}

ProgramFrame ==
    UNCHANGED <<nd, kind, nextH, acq, raw, mem, pending, mapped, out, args>>

\* std::string getBuildLog(const Device& device) const, called by the user
ProgramGetBuildLog(s, device) ==
    /\ kind = "Program"
    /\ objs[s].live
    /\ LET status == BuildInfoStatus(objs[s].h, device)
           l == [Call("getBuildLog", s, 0, "ok") EXCEPT
                    !.nat = IF status = "CL_SUCCESS" THEN "none" ELSE status]
       IN  \E r \in getBuildLog(objs[s].h, device) :
              IF r.thrown
              THEN Record([l EXCEPT !.st = "BadAlloc"])
              ELSE Record([l EXCEPT !.log = r.log])
    /\ UNCHANGED <<objs, rel, prog, files>>
    /\ ProgramFrame

\* void Program::build(device, options); buildOptimized and buildDebug call it
\* with their option strings.
\*   err = clBuildProgram(...);
\*   if (err != CL_SUCCESS) throw Error(err, "building program: " + getBuildLog(device));
ProgramBuild(op, s, device) ==
    /\ kind = "Program"
    /\ objs[s].live
    /\ LET h == objs[s].h
           l == Call(op, s, 0, "ok")
       IN  \E err \in BuildStatuses(h, device) :
              CASE err = "CL_SUCCESS" ->
                     /\ \E log \in CleanLogs, bin \in Binaries :
                           prog' = [prog EXCEPT ![h] =
                                       Built(log, IF @.bin = <<>> THEN bin ELSE @.bin)]
                     /\ Record(l)
                [] err = "CL_BUILD_PROGRAM_FAILURE" ->
                     /\ \E log \in ErrorLogs :
                           /\ prog' = [prog EXCEPT ![h] = BuildFailed(log)]
                           /\ Record([l EXCEPT !.st = "NativeError", !.nat = err,
                                               !.code = err, !.log = log])
                [] OTHER ->
                     /\ UNCHANGED prog
                     /\ \E r \in getBuildLog(h, device) :
                           IF r.thrown
                           THEN Record([l EXCEPT !.st = "BadAlloc", !.nat = err])
                           ELSE Record([l EXCEPT !.st = "NativeError", !.nat = err,
                                                 !.code = err, !.log = r.log])
    /\ UNCHANGED <<objs, rel, files>>
    /\ ProgramFrame

\* clGetProgramInfo(program_, CL_PROGRAM_BINARY_SIZES / CL_PROGRAM_BINARIES, ...):
\* a program without a binary for the device reports CL_SUCCESS and size 0.
ProgramInfoStatuses(h) ==
    IF h = 0 THEN {"CL_INVALID_PROGRAM"} ELSE {"CL_SUCCESS", "CL_OUT_OF_HOST_MEMORY"}

\* What file.write(binary.data(), binary_size) leaves in the opened file:
\* binary holds the binary_size bytes clGetProgramInfo copied into it.
Written(h) == FileWrite(prog[h].bin, Len(prog[h].bin))

\* void Program::saveBinary(const Device&, const std::string& filepath)
ProgramSaveBinary(s) ==
    /\ kind = "Program"
    /\ objs[s].live
    /\ LET h == objs[s].h
           l == Call("saveBinary", s, 0, "ok")
       IN  \E err \in ProgramInfoStatuses(h), opened \in BOOLEAN :
              IF err # "CL_SUCCESS"
              THEN /\ UNCHANGED files
                   /\ Record([l EXCEPT !.st = "NativeError", !.nat = err, !.code = err])
              ELSE IF ~opened
                   THEN /\ UNCHANGED files
                        /\ Record([l EXCEPT !.st = "FileError"])
                   ELSE /\ files' = Written(h)
                        /\ Record([l EXCEPT !.data = prog[h].bin])
    /\ UNCHANGED <<objs, rel, prog>>
    /\ ProgramFrame

\* The status clCreateProgramWithBinary reports in errcode_ret for the bytes read.
BinaryStatuses(file, device) ==
    IF ~device THEN {"CL_INVALID_DEVICE"}
    ELSE IF file = <<>> THEN {"CL_INVALID_VALUE"}
    ELSE IF nextH > MaxHandles THEN {"CL_OUT_OF_HOST_MEMORY"}
    ELSE {"CL_SUCCESS", "CL_INVALID_BINARY"}

\* The status it reports in binary_status when errcode_ret is CL_SUCCESS.
LoadStatuses == {"CL_SUCCESS", "CL_INVALID_BINARY"}

\* static Program Program::fromBinary(context, device, filepath), its result
\* constructed in slot s. The local prog is destroyed when a check throws.
ProgramFromBinary(s, device) ==
    /\ kind = "Program"
    /\ ~objs[s].live
    /\ LET binary == FileRead(files.bytes, Len(files.bytes))
           l == [Call("fromBinary", s, 0, "ok") EXCEPT !.data = binary]
           h == nextH
       IN  \E readable \in BOOLEAN :
              IF ~files.exists \/ ~readable
              THEN /\ Record([l EXCEPT !.st = "FileError", !.data = <<>>])
                   /\ UNCHANGED <<objs, nextH, acq, rel, prog>>
              ELSE \E err \in BinaryStatuses(binary, device), loaded \in LoadStatuses,
                      berr \in BuildStatuses(h, device) :
                      IF err # "CL_SUCCESS"
                      THEN /\ Record([l EXCEPT !.st = "NativeError", !.nat = err,
                                               !.code = err])
                           /\ UNCHANGED <<objs, nextH, acq, rel, prog>>
                      ELSE /\ nextH' = nextH + 1
                           /\ acq' = Acquired(h)
                           /\ IF loaded # "CL_SUCCESS"
                              THEN /\ Record([l EXCEPT !.st = "NativeError", !.nat = loaded,
                                                       !.code = loaded, !.val = h])
                                   /\ rel' = ReleaseIfSet(h)
                                   /\ UNCHANGED <<objs, prog>>
                              ELSE IF berr # "CL_SUCCESS"
                              THEN /\ Record([l EXCEPT !.st = "NativeError", !.nat = berr,
                                                       !.code = berr, !.val = h])
                                   /\ prog' = [prog EXCEPT ![h] = BuildFailed("error")]
                                   /\ rel' = ReleaseIfSet(h)
                                   /\ UNCHANGED objs
                              ELSE /\ Record([l EXCEPT !.val = h])
                                   /\ prog' = [prog EXCEPT ![h] = Built("", binary)]
                                   /\ objs' = [objs EXCEPT ![s] = Owner(h)]
                                   /\ UNCHANGED rel
    /\ UNCHANGED <<nd, kind, raw, mem, pending, mapped, out, files, args>>

(***************************************************************************)
(* NDRange padding helpers and Kernel dispatch                             *)
(***************************************************************************)

\* static size_t roundUp(size_t value, size_t multiple)
roundUp(value, multiple) ==
    IF multiple = 0
    THEN value
    ELSE LET remainder == value % multiple
         IN  IF remainder = 0 THEN value ELSE Wrap(value + multiple - remainder)

\* static bool isValidWorkSize(size_t global_size, size_t local_size)
isValidWorkSize(global_size, local_size) ==
    local_size > 0 /\ global_size % local_size = 0

\* static size_t getPaddedGlobalSize(size_t desired_size, size_t local_size)
getPaddedGlobalSize(desired_size, local_size) == roundUp(desired_size, local_size)

\* The values of size_t.
Sizes == 0..SizeMax

CallRoundUp ==
    /\ UNCHANGED <<kind, objs, nextH, rel, acq, raw, mem, pending, mapped, out, prog, files, args,
                 trace, last, prev>>
    /\ nd.fn = "none"
    /\ \E value \in Sizes, multiple \in Sizes :
        nd' = [fn |-> "roundUp", g |-> <<value, 1, 1>>, max |-> 1, pm |-> multiple,
               loc |-> <<roundUp(value, multiple), 1, 1>>]

CallPaddedGlobalSize ==
    /\ UNCHANGED <<kind, objs, nextH, rel, acq, raw, mem, pending, mapped, out, prog, files, args,
                 trace, last, prev>>
    /\ nd.fn = "none"
    /\ \E desired_size \in Sizes, local_size \in Sizes :
        nd' = [fn |-> "getPaddedGlobalSize", g |-> <<desired_size, 1, 1>>, max |-> 1,
               pm |-> local_size,
               loc |-> <<getPaddedGlobalSize(desired_size, local_size), 1, 1>>]

\* An execute that makes no divisibility check.
AnyWorkSize(global_work_size, local_work_size) == TRUE

\* the negation of: local_work_size > 0 && global_work_size % local_work_size != 0
WorkSizeOk(global_work_size, local_work_size) ==
    ~(local_work_size > 0 /\ global_work_size % local_work_size # 0)

\* const size_t* local = (local_work_size > 0) ? &local_work_size : nullptr;
LocalArg(local_work_size) ==
    IF local_work_size > 0 THEN <<local_work_size>> ELSE <<>>

\* ---- kernel arguments ------------------------------------------------

\* Bound: the number of parameters of the kernel function.
NumArgs == 2

\* Argument indices the calls are made with, one past the last included; the
\* values bound (0 stands for an argument never set).
ArgIndices == 0..NumArgs
ArgValues == {1, 2}
Unbound == [i \in 0..(NumArgs - 1) |-> 0]

\* The status clSetKernelArg(kernel_, index, size, &value) reports; rejected
\* is the set of indices whose size or value the native layer does not accept.
SetArgStatus(h, index, rejected) ==
    IF h = 0 THEN "CL_INVALID_KERNEL"
    ELSE IF index >= NumArgs THEN "CL_INVALID_ARG_INDEX"
    ELSE IF index \in rejected THEN "CL_INVALID_ARG_SIZE"
    ELSE "CL_SUCCESS"

\* clSetKernelArg copies the value into the kernel object when it succeeds.
BoundAt(a, index, value) == [a EXCEPT ![index] = value]

SetArgOps == {"setArg", "setArgMem", "setArgBuffer", "setLocalArg"}

\* template<T> void setArg(cl_uint index, const T& value), setArg(index, cl_mem),
\* setArg(index, const Buffer<T>&) and setLocalArg(index, size_in_bytes):
\*   err = clSetKernelArg(kernel_, index, ...); checkError(err, ...)
KernelSetArg(op, s, index, value) ==
    /\ kind = "Kernel"
    /\ objs[s].live
    /\ LET h == objs[s].h
           l == [Call(op, s, 0, "ok") EXCEPT !.off = index, !.val = value]
       IN  \E rejected \in SUBSET {index} :
              LET err == SetArgStatus(h, index, rejected)
              IN  IF err = "CL_SUCCESS"
                  THEN /\ args' = [args EXCEPT ![h] = BoundAt(@, index, value)]
                       /\ Record([l EXCEPT !.cnt = 1])
                  ELSE /\ UNCHANGED args
                       /\ Record([l EXCEPT !.st = "NativeError", !.nat = err,
                                           !.code = err, !.cnt = 1])
    /\ UNCHANGED <<nd, prog, files, kind, objs, nextH, rel, acq, raw, mem, pending,
                   mapped, out>>

\* A recursion that goes on to the remaining values after a failed binding.
RECURSIVE setArgsImplKeepsGoing(_, _, _, _, _)
setArgsImplKeepsGoing(h, index, values, a, rejected) ==
    IF values = <<>>
    THEN [args |-> a, err |-> "CL_SUCCESS", at |-> index, calls |-> 0]
    ELSE LET err == SetArgStatus(h, index, rejected)
             bound == IF err = "CL_SUCCESS" THEN BoundAt(a, index, Head(values)) ELSE a
             rest == setArgsImplKeepsGoing(h, index + 1, Tail(values), bound, rejected)
         IN  IF err = "CL_SUCCESS"
             THEN [rest EXCEPT !.calls = @ + 1]
             ELSE [rest EXCEPT !.calls = @ + 1, !.err = err, !.at = index]

\* void setArgsImpl(cl_uint) {}
\* void setArgsImpl(cl_uint index, T&& first, Rest&&... rest)
\*   { setArg(index, first); setArgsImpl(index + 1, rest...); }
\* a is the kernel's bindings so far. The result: the bindings at the end, the
\* status that stopped the recursion and the index it stopped at, the number
\* of setArg calls made.
RECURSIVE setArgsImpl(_, _, _, _, _)
setArgsImpl(h, index, values, a, rejected) ==
    IF values = <<>>
    THEN [args |-> a, err |-> "CL_SUCCESS", at |-> index, calls |-> 0]
    ELSE LET err == SetArgStatus(h, index, rejected)
         IN  IF err = "CL_SUCCESS"
             THEN LET rest == setArgsImpl(h, index + 1, Tail(values),
                                          BoundAt(a, index, Head(values)), rejected)
                  IN  [rest EXCEPT !.calls = @ + 1]
             ELSE [args |-> a, err |-> err, at |-> index, calls |-> 1]

\* Argument lists of up to one value more than the kernel has parameters.
ArgLists == UNION {[1..n -> ArgValues] : n \in 0..(NumArgs + 1)}

\* template<Args...> void setArgs(Args&&... args) { setArgsImpl(0, args...); }
KernelSetArgs(s, values) ==
    /\ kind = "Kernel"
    /\ objs[s].live
    /\ LET h == objs[s].h
           l == [Call("setArgs", s, 0, "ok") EXCEPT !.data = values]
       IN  \E rejected \in SUBSET (0..(NumArgs - 1)) :
              LET r == setArgsImpl(h, 0, values, IF h = 0 THEN Unbound ELSE args[h],
                                   rejected)
              IN  /\ args' = IF h = 0 THEN args ELSE [args EXCEPT ![h] = r.args]
                  /\ IF r.err = "CL_SUCCESS"
                     THEN Record([l EXCEPT !.cnt = r.calls, !.off = r.at])
                     ELSE Record([l EXCEPT !.st = "NativeError", !.nat = r.err,
                                          !.code = r.err, !.cnt = r.calls, !.off = r.at])
    /\ UNCHANGED <<nd, prog, files, kind, objs, nextH, rel, acq, raw, mem, pending,
                   mapped, out>>

\* A dispatch that carries no argument values of its own.
NDRangeCmdLateBound(h, global_work_size, local) ==
    [k |-> "ndrange", h |-> h, h2 |-> 0, off |-> 0, off2 |-> 0, n |-> 0, data |-> <<>>,
     global |-> global_work_size, local |-> local, args |-> Unbound]

\* the command clEnqueueNDRangeKernel(queue, kernel_, 1, nullptr, &global, local, ...)
\* submits: the dispatch takes the kernel's argument values as they are bound
\* at the enqueue.
NDRangeCmd(h, global_work_size, local) ==
    [k |-> "ndrange", h |-> h, h2 |-> 0, off |-> 0, off2 |-> 0, n |-> 0, data |-> <<>>,
     global |-> global_work_size, local |-> local,
     args |-> IF h = 0 THEN Unbound ELSE args[h]]

\* The status clEnqueueNDRangeKernel reports.
EnqueueStatuses(h) ==
    IF h = 0
    THEN {"CL_INVALID_KERNEL"}
    ELSE {"CL_SUCCESS", "CL_INVALID_WORK_GROUP_SIZE"}

\* void Kernel::execute(queue, global_work_size, local_work_size)
KernelExecute(s, global_work_size, local_work_size) ==
    /\ kind = "Kernel"
    /\ objs[s].live
    /\ Len(pending) < MaxDispatches
    /\ LET l == [Call("execute", s, 0, "ok") EXCEPT !.off = global_work_size,
                                                   !.cnt = local_work_size]
       IN  IF ~WorkSizeOk(global_work_size, local_work_size)
           THEN /\ Record([l EXCEPT !.st = "InvalidWorkSize"])
                /\ UNCHANGED pending
           ELSE \E err \in EnqueueStatuses(objs[s].h) :
                   IF err = "CL_SUCCESS"
                   THEN /\ pending' = Append(pending,
                                 NDRangeCmd(objs[s].h, global_work_size,
                                            LocalArg(local_work_size)))
                        /\ Record(l)
                   ELSE /\ UNCHANGED pending
                        /\ Record([l EXCEPT !.st = "NativeError", !.nat = err,
                                            !.code = err])
    /\ UNCHANGED <<nd, prog, files, args, kind, objs, nextH, rel, acq, raw, mem, mapped, out>>

\* void CommandQueue::finish(): clFinish(queue_); checkError(err, ...)
QueueFinish ==
    /\ pending # <<>>
    /\ \E err \in {"CL_SUCCESS", "CL_OUT_OF_RESOURCES"} :
          IF err = "CL_SUCCESS"
          THEN /\ Finish(out)
               /\ Record([NoOp EXCEPT !.op = "finish"])
          ELSE /\ \E ran \in BOOLEAN :
                      IF ran
                      THEN Finish(out)
                      ELSE pending' = <<>> /\ UNCHANGED <<mem, out>>
               /\ Record([NoOp EXCEPT !.op = "finish", !.st = "NativeError",
                                      !.nat = err, !.code = err])
    /\ UNCHANGED <<nd, prog, files, args, kind, objs, nextH, rel, acq, raw, mapped>>

\* Work-group limits a kernel reports, as values of size_t.
KernelLimits == WorkGroupSizes \cap Sizes
KernelMultiples == PreferredMultiples \cap Sizes

\* size_t local = NDRange::getOptimal1D(kernel, device, N);
\* size_t global = NDRange::getPaddedGlobalSize(N, local);
\* (the two kernel queries of getOptimal1D throw on a kernel without a handle)
PlanDispatch(s) ==
    /\ kind = "Kernel"
    /\ objs[s].live
    /\ nd.fn = "none"
    /\ IF objs[s].h = 0
       THEN /\ UNCHANGED nd
            /\ Record([Call("getOptimal1D", s, 0, "NativeError")
                          EXCEPT !.nat = "CL_INVALID_KERNEL", !.code = "CL_INVALID_KERNEL"])
       ELSE /\ \E N \in 1..SizeMax, m \in KernelLimits, p \in KernelMultiples :
                 LET local == getOptimal1D(N, m, p)
                 IN  nd' = [fn |-> "plan", g |-> <<N, getPaddedGlobalSize(N, local), 1>>,
                            max |-> m, pm |-> p, loc |-> <<local, 1, 1>>]
            /\ Record(Call("getOptimal1D", s, 0, "ok"))
    /\ UNCHANGED <<prog, files, args, kind, objs, nextH, rel, acq, raw, mem, pending, mapped, out>>

\* kernel.execute(queue, global, local) with the planned sizes
ExecutePlanned(s) ==
    /\ nd.fn = "plan"
    /\ KernelExecute(s, nd.g[2], nd.loc[1])

(***************************************************************************)
(* Specifications                                                          *)
(***************************************************************************)

InitCommon ==
    /\ nd = NoCall
    /\ objs = [s \in Slots |-> Absent]
    /\ nextH = 1
    /\ rel = [h \in Handles |-> 0]
    /\ acq = [h \in Handles |-> 0]
    /\ raw = {}
    /\ mem = [h \in Handles |-> <<>>]
    /\ pending = <<>>
    /\ mapped = {}
    /\ out = <<>>
    /\ prog = [h \in Handles |-> NotBuilt]
    /\ files = NoFile
    /\ args = [h \in Handles |-> Unbound]
    /\ last = NoOp
    /\ prev = Summary(NoOp)

\* ---- Spec: one Buffer<T>, blocking calls -----------------------------

One == {1}
Blocking == {TRUE}

CreatesData(S) ==
    \E s \in S, data \in DataIn : Len(data) <= MaxCap /\ BufferCreateData(s, data)

Creates(S) ==
    \/ \E s \in S : BufferDefault(s)
    \/ \E s \in S, count \in 0..MaxCap : BufferCreateCount(s, count)
    \/ CreatesData(S)

Destroys(S) == \E s \in S : BufferDestroy(s)

Moves(S) == \E d, s \in S : BufferMoveConstruct(d, s) \/ BufferMoveAssign(d, s)

FullWrites(S, B) == \E b \in S, data \in DataIn, blocking \in B : BufferWrite(b, data, blocking)

AsyncWrites(S) == \E b \in S, data \in DataIn : BufferWriteAsync(b, data)

OffsetWrites(S, B) ==
    \E b \in S, data \in DataIn, off \in Offsets, blocking \in B :
        BufferWriteOffset(b, data, off, blocking)

PtrWrites(S, B) ==
    \E b \in S, data \in DataIn, off \in Offsets, blocking \in B :
        BufferWritePtr(b, data, off, blocking)

Fills(S, B) == \E b \in S, value \in Elems, blocking \in B : BufferFill(b, value, blocking)

FullReads(S, B) == \E b \in S, blocking \in B : BufferRead(b, blocking)

AsyncReads(S) == \E b \in S : BufferReadAsync(b)

PartReads(S, C, O, B) ==
    \E b \in S, cnt \in C, off \in O, blocking \in B :
        BufferReadPart(b, cnt, off, blocking)

PtrReads(S, B) ==
    \E b \in S, cnt \in Counts, off \in Offsets, blocking \in B :
        BufferReadPtr(b, cnt, off, blocking)

CopiesFrom(D, S, C, O, B) ==
    \E b \in D, b2 \in S, cnt \in C, soff \in O, doff \in O, blocking \in B :
        BufferCopyFrom(b, b2, cnt, soff, doff, blocking)

CopiesTo(S, D, C, O, B) ==
    \E b \in S, b2 \in D, cnt \in C, soff \in O, doff \in O, blocking \in B :
        BufferCopyTo(b, b2, cnt, soff, doff, blocking)

Maps(S, B) == \E b \in S, blocking \in B : BufferMap(b, blocking)

Unmaps(S) == \E b \in S : BufferUnmap(b)

Init ==
    /\ kind = "Buffer"
    /\ trace = "calls"
    /\ InitCommon

Next ==
    \/ Creates(One)
    \/ Destroys(One)
    \/ FullWrites(One, Blocking)
    \/ OffsetWrites(One, Blocking)
    \/ PtrWrites(One, Blocking)
    \/ Fills(One, Blocking)
    \/ FullReads(One, Blocking)
    \/ PartReads(One, Counts, Offsets, Blocking)
    \/ PtrReads(One, Blocking)

Spec == Init /\ [][Next]_vars

\* ---- SpecWrite: one Buffer<T>, every write, blocking or not ----------

NextWrite ==
    \/ Creates(One)
    \/ FullWrites(One, BOOLEAN)
    \/ AsyncWrites(One)
    \/ OffsetWrites(One, BOOLEAN)
    \/ PtrWrites(One, BOOLEAN)
    \/ Fills(One, BOOLEAN)
    \/ DeviceStep

SpecWrite == Init /\ [][NextWrite]_vars

\* ---- SpecAsync: one Buffer<T>, commands in flight while the host runs -

NonBlocking == {FALSE}

NextAsync ==
    \/ CreatesData(One)
    \/ AsyncWrites(One)
    \/ AsyncReads(One)
    \/ Fills(One, NonBlocking)
    \/ FullReads(One, Blocking)
    \/ DeviceStep

SpecAsync == Init /\ [][NextAsync]_vars

\* ---- SpecCopy: two Buffer<T>, device-side copies and reads -----------

\* The first wrapper is the source of the copies, the last their destination.
Src == {1}
Dst == {NSlots}

\* Ranges that lie within the largest capacity.
CopyCounts == 1..MaxCap
CopyOffsets == 0..(MaxCap - 1)

NextCopy ==
    \/ CreatesData(Src \cup Dst)
    \/ FullWrites(Dst, Blocking)
    \/ CopiesFrom(Dst, Src, CopyCounts, CopyOffsets, Blocking)
    \/ CopiesTo(Src, Dst, CopyCounts, CopyOffsets, Blocking)
    \/ PartReads(Dst, CopyCounts, CopyOffsets, Blocking)

SpecCopy == Init /\ [][NextCopy]_vars

\* ---- SpecRange: the range checks on every offset and count ----------

NextRange ==
    \/ CreatesData(Src \cup Dst)
    \/ OffsetWrites(Dst, Blocking)
    \/ PartReads(Dst, Counts, Offsets, Blocking)
    \/ CopiesFrom(Dst, Src, Counts, Offsets, Blocking)

SpecRange == Init /\ [][NextRange]_vars

\* ---- SpecAll: every Buffer<T> operation, blocking, no history kept ---

InitAll ==
    /\ kind = "Buffer"
    /\ trace = "off"
    /\ InitCommon

NextAll ==
    \/ Creates(Slots)
    \/ Destroys(Slots)
    \/ Moves(Slots)
    \/ FullWrites(Slots, Blocking)
    \/ OffsetWrites(Slots, Blocking)
    \/ PtrWrites(Slots, Blocking)
    \/ Fills(Slots, Blocking)
    \/ FullReads(Slots, Blocking)
    \/ PartReads(Slots, Counts, Offsets, Blocking)
    \/ PtrReads(Slots, Blocking)
    \/ CopiesFrom(Slots, Slots, CopyCounts, CopyOffsets, Blocking)
    \/ CopiesTo(Slots, Slots, CopyCounts, CopyOffsets, Blocking)
    \/ Maps(Slots, Blocking)
    \/ Unmaps(Slots)

SpecAll == InitAll /\ [][NextAll]_vars

\* ---- SpecFrame: the data operations of a Buffer<T>, labels kept ------

InitFrame ==
    /\ kind = "Buffer"
    /\ trace = "ops"
    /\ InitCommon

\* The vectors and counts the calls are made with.
FrameData == {Pattern(n, 1) : n \in 0..MaxCap}
FrameCounts == {1}

NextFrame ==
    \/ CreatesData(Src \cup Dst)
    \/ \E b \in Dst, data \in FrameData : BufferWrite(b, data, TRUE)
    \/ Fills(Dst, Blocking)
    \/ \E b \in Dst, data \in FrameData, off \in CopyOffsets :
          BufferWriteOffset(b, data, off, TRUE) \/ BufferWritePtr(b, data, off, TRUE)
    \/ FullReads(Dst, Blocking)
    \/ PartReads(Dst, FrameCounts, CopyOffsets, Blocking)
    \/ \E b \in Dst, off \in CopyOffsets : BufferReadPtr(b, 1, off, TRUE)
    \/ CopiesFrom(Dst, Src, FrameCounts, CopyOffsets, Blocking)
    \/ CopiesTo(Dst, Src, FrameCounts, CopyOffsets, Blocking)
    \/ Maps(Dst, Blocking)
    \/ Unmaps(Dst)

SpecFrame == InitFrame /\ [][NextFrame]_vars

\* ---- SpecRes: wrapper lifecycles of one class ------------------------

InitRes ==
    /\ kind \in Kinds
    /\ trace = "calls"
    /\ InitCommon

NextRes ==
    \/ ContextCreate \/ ContextDestroy \/ ContextMoveConstruct \/ ContextMoveAssign
    \/ CommandQueueCreate \/ CommandQueueDestroy
    \/ CommandQueueMoveConstruct \/ CommandQueueMoveAssign
    \/ ProgramCreate \/ ProgramDestroy \/ ProgramMoveConstruct \/ ProgramMoveAssign
    \/ KernelCreate \/ KernelDestroy \/ KernelMoveConstruct \/ KernelMoveAssign
    \/ NativeEventCreated
    \/ EventCreate \/ EventDestroy \/ EventMoveConstruct \/ EventMoveAssign
    \/ Creates(Slots) \/ Destroys(Slots) \/ Moves(Slots)
    \/ FullWrites(Slots, Blocking)

SpecRes == InitRes /\ [][NextRes]_vars

\* ---- SpecND: the NDRange functions on bounded inputs -----------------

InitND ==
    /\ kind = "Kernel"
    /\ trace = "calls"
    /\ InitCommon

NextND ==
    \/ CallOptimal1D \/ CallOptimal2D \/ CallOptimal3D
    \/ CallRoundUp \/ CallPaddedGlobalSize

SpecND == InitND /\ [][NextND]_vars

\* ---- SpecLoops: the NDRange functions, loop test by loop test --------

NextLoops ==
    \/ EnterOptimal1D \/ EnterOptimal2D \/ EnterOptimal3D \/ EnterFindBestDivisor
    \/ LoopIteration

SpecLoops == InitND /\ [][NextLoops]_vars

\* ---- SpecKernel: kernels dispatched on a queue -----------------------

\* Work sizes the dispatches are made with.
GlobalSizes == 0..4
LocalSizes == 0..3

Executes(S, G, L) ==
    \E s \in S, global_work_size \in G, local_work_size \in L :
        KernelExecute(s, global_work_size, local_work_size)

Plans(S) == \E s \in S : PlanDispatch(s)

PlannedExecutes(S) == \E s \in S : ExecutePlanned(s)

InitKernel ==
    /\ kind = "Kernel"
    /\ trace = "calls"
    /\ InitCommon

NextKernel ==
    \/ KernelCreate
    \/ KernelDestroy
    \/ Executes(Slots, GlobalSizes, LocalSizes)
    \/ QueueFinish
    \/ Plans(Slots)
    \/ PlannedExecutes(Slots)

SpecKernel == InitKernel /\ [][NextKernel]_vars

\* ---- SpecArgs: kernel arguments bound while dispatches are in flight --

\* The work sizes of the dispatches.
ArgsGlobal == {4}
ArgsLocal == {2}

SetsArg(S) ==
    \E op \in SetArgOps, s \in S, index \in ArgIndices, value \in ArgValues :
        KernelSetArg(op, s, index, value)

SetsArgs(S) == \E s \in S, values \in ArgLists : KernelSetArgs(s, values)

NextArgs ==
    \/ KernelCreate
    \/ SetsArg(One)
    \/ SetsArgs(One)
    \/ Executes(One, ArgsGlobal, ArgsLocal)
    \/ DeviceStep

SpecArgs == InitKernel /\ [][NextArgs]_vars

\* ---- SpecProg: programs built, saved to and loaded from the cache ----

Builds(S) == \E op \in BuildOps, s \in S, device \in DeviceValid : ProgramBuild(op, s, device)

BuildLogs(S) == \E s \in S, device \in DeviceValid : ProgramGetBuildLog(s, device)

Saves(S) == \E s \in S : ProgramSaveBinary(s)

Loads(S) == \E s \in S, device \in DeviceValid : ProgramFromBinary(s, device)

InitProg ==
    /\ kind = "Program"
    /\ trace = "calls"
    /\ InitCommon

NextProg ==
    \/ ProgramCreate
    \/ ProgramDestroy
    \/ ProgramMoveConstruct
    \/ ProgramMoveAssign
    \/ Builds(Slots)
    \/ BuildLogs(Slots)
    \/ Saves(Slots)
    \/ Loads(Slots)

SpecProg == InitProg /\ [][NextProg]_vars

(***************************************************************************)
(* Properties                                                              *)
(***************************************************************************)

\* The wrappers that hold native handle h.
Holders(h) == {s \in Slots : objs[s].live /\ objs[s].h = h}

MoveOps == {"moveConstruct", "moveAssign"}
WriteOps == {"write", "writeAsync", "writeOffset", "writePtr"}
PartReadOps == {"readPart", "readPtr"}

\* ---- C1 (SpecAll) ----------------------------------------------------

\* C1: in every reachable state every Buffer has size <= capacity, after
\* construction, writes, fill, copies, map/unmap and moves, whether the
\* operation returned or threw.
C1_SizeWithinCapacity ==
    \A s \in Slots : objs[s].live => objs[s].size <= objs[s].cap

\* C1 witness: a buffer whose size a shorter full write has brought below its
\* capacity, beside a moved-from (empty) buffer.
C1_Witness ==
    \E s, t \in Slots :
        /\ objs[s].live /\ objs[s].h # 0
        /\ 0 < objs[s].size /\ objs[s].size < objs[s].cap
        /\ objs[t] = Empty

\* ---- C2, C3 (SpecND) -------------------------------------------------

\* C2: getOptimal1D returns a local size that divides the global size and
\* lies between 1 and the maximum work-group size.
C2_Optimal1DDividesAndFits ==
    nd.fn = "1D" =>
        /\ nd.g[1] % nd.loc[1] = 0
        /\ 1 <= nd.loc[1]
        /\ nd.loc[1] <= nd.max

\* C3: every component of the geometry getOptimal2D / getOptimal3D returns
\* divides the matching global extent, on the candidate path and on the
\* fallback path.
C3_OptimalNDDivides ==
    nd.fn \in {"2D", "3D"} => \A d \in 1..3 : nd.g[d] % nd.loc[d] = 0

\* ---- C4 (SpecWrite) --------------------------------------------------

\* C4: a write (full, async, offset or raw-pointer) with
\* offset + data.length > capacity fails with CapacityExceeded and leaves the
\* buffer's size and capacity as they were.
C4_OverlongWriteRejected ==
    (last.op \in WriteOps /\ last.off + Len(last.data) > last.pre.cap) =>
        /\ last.st = "CapacityExceeded"
        /\ objs[last.b].size = last.pre.size
        /\ objs[last.b].cap = last.pre.cap

\* ---- C5 (Spec) -------------------------------------------------------

\* C5: a partial read (vector or raw-pointer) with offset + count > size fails
\* with RangeExceeded, the bound being the logical size, and leaves the length
\* of the output container as it was.
C5_OverlongReadRejected ==
    (last.op \in PartReadOps /\ last.off + last.cnt > last.pre.size) =>
        /\ last.st = "RangeExceeded"
        /\ Len(out) = last.olen

\* ---- C6 (Spec) -------------------------------------------------------

\* the step is a blocking full read of buffer b that returns normally
ReadsBack(b) ==
    /\ last' # last
    /\ last'.op = "read" /\ last'.st = "ok" /\ last'.blk /\ last'.b = b

\* C6: a blocking full write(x) that succeeds, followed by a blocking full
\* read() of the same buffer, returns x: same length, same elements.
C6_WriteReadRoundTrip ==
    [][(last.op = "write" /\ last.st = "ok" /\ last.blk /\ ReadsBack(last.b))
          => out' = last.data]_vars

\* C6 witness: a read that followed a write shorter than the capacity and
\* returned a non-empty sequence.
C6_Witness ==
    /\ prev.kind = "write"
    /\ last.op = "read" /\ last.st = "ok" /\ last.b = prev.b
    /\ out # <<>>
    /\ objs[last.b].size < objs[last.b].cap

\* ---- C7 (SpecCopy) ---------------------------------------------------

\* last is a successful blocking copyTo between two distinct buffers, and the
\* step is a blocking read of the destination over the range copied into
ReadsCopied ==
    /\ last.op = "copyTo" /\ last.st = "ok" /\ last.blk /\ last.b # last.b2
    /\ last' # last
    /\ last'.op = "readPart" /\ last'.blk
    /\ last'.b = last.b2 /\ last'.cnt = last.cnt /\ last'.off = last.off
    /\ last'.st # "NativeError"

\* the read returned the source elements [srcOffset, srcOffset + count)
SourceRangeRead ==
    /\ last'.st = "ok"
    /\ out' = SubSeq(mem[objs[last.b].h], last.off2 + 1, last.off2 + last.cnt)

\* C7 as stated: after a successful copyTo, the read of the destination range
\* succeeds and returns the source range, whatever the destination's size.
C7_CopyThenReadAsStated == [][ReadsCopied => SourceRangeRead]_vars

\* C7 amended: ... when the destination range lies within the destination's
\* logical size.
C7_CopyThenReadWithinSize ==
    [][(ReadsCopied /\ last.off + last.cnt <= objs[last.b2].size)
          => SourceRangeRead]_vars

\* C7 witness: a read of the range just copied into a destination whose size
\* a shorter full write had reduced.
C7_Witness ==
    /\ prev.kind = "copyTo"
    /\ last.op = "readPart" /\ last.st = "ok" /\ last.b = prev.b2
    /\ last.cnt = prev.cnt /\ last.off = prev.off /\ last.cnt > 0
    /\ objs[last.b].size < objs[last.b].cap

\* ---- C8 (Spec) -------------------------------------------------------

\* C8: a blocking fill(v) followed by a blocking full read() yields size
\* elements, each equal to v; and fill leaves size and capacity as they were.
C8_FillThenRead ==
    /\ [](last.op = "fill" =>
             /\ objs[last.b].size = last.pre.size
             /\ objs[last.b].cap = last.pre.cap)
    /\ [][(last.op = "fill" /\ last.st = "ok" /\ last.blk /\ ReadsBack(last.b))
             => /\ Len(out') = objs[last.b].size
                /\ \A i \in 1..Len(out') : out'[i] = last.val]_vars

\* C8 witness: a read that followed a fill with a non-zero value and returned
\* a non-empty sequence.
C8_Witness ==
    /\ prev.kind = "fill"
    /\ last.op = "read" /\ last.st = "ok" /\ last.b = prev.b
    /\ out # <<>> /\ out[1] # 0

\* ---- C9 (SpecRes) ----------------------------------------------------

\* C9: over any sequence of constructions, moves and destructions, no handle
\* is released twice, and once all wrappers are destroyed every handle a
\* wrapper acquired has been released exactly once.
C9_ReleasedExactlyOnce ==
    \A h \in Handles :
        /\ rel[h] <= 1
        /\ ((\A s \in Slots : ~objs[s].live) /\ acq[h] >= 1) => rel[h] = 1

\* ---- C10 (SpecRes) ---------------------------------------------------

\* the destination of the last move holds what the source held
TookOver == objs[last.b] = [last.pre2 EXCEPT !.live = TRUE]

Submitted == pending[Len(pending)]

\* C12: Kernel::execute with a local size > 0 that does not divide the global
\* size fails with InvalidWorkSize and submits nothing; otherwise the check
\* passes, and a dispatch that the native layer accepts is submitted with no
\* local size when the local size is 0 and with exactly the given local size
\* when it divides the global size.
C12_ExecuteChecksDivisibility ==
    [][last'.op = "execute" =>
          LET g == last'.off
              l == last'.cnt
          IN  IF l > 0 /\ g % l # 0
              THEN last'.st = "InvalidWorkSize" /\ pending' = pending
              ELSE /\ last'.st \in {"ok", "NativeError"}
                   /\ last'.st = "NativeError" => pending' = pending
                   /\ last'.st = "ok" =>
                         /\ Len(pending') = Len(pending) + 1
                         /\ SubSeq(pending', 1, Len(pending)) = pending
                         /\ Submitted'.k = "ndrange"
                         /\ Submitted'.global = g
                         /\ Submitted'.local = IF l = 0 THEN <<>> ELSE <<l>>]_vars

\* C12 witness: a dispatch of global size 3 with local size 2 was rejected
\* while the queue was empty.
C12_Witness ==
    /\ last.op = "execute"
    /\ last.off = 3 /\ last.cnt = 2
    /\ last.st = "InvalidWorkSize"
    /\ last.pre.h # 0
    /\ pending = <<>>

\* ---- C13, C14, C15, C17 (SpecND) -------------------------------------

\* C13: the product of the components getOptimal2D / getOptimal3D returns is
\* at most the maximum work-group size.
C13_OptimalNDFitsLimit ==
    nd.fn \in {"2D", "3D"} => nd.loc[1] * nd.loc[2] * nd.loc[3] <= nd.max

\* C13 witness: no 2D candidate divides (9, 9); the fallback halved the second
\* component of (9, 9) to fit 64.
C13_Witness ==
    /\ nd.fn = "2D"
    /\ nd.g = <<9, 9, 1>> /\ nd.max = 64
    /\ nd.loc = <<9, 4, 1>>

\* The priority lists, and what makes a candidate qualify for the last call.
Priority2D == << <<16, 16, 1>>, <<32, 8, 1>>, <<8, 32, 1>>, <<8, 8, 1>>, <<16, 8, 1>>, <<8, 16, 1>> >>
Priority3D == << <<8, 8, 4>>, <<4, 8, 8>>, <<8, 4, 4>>, <<4, 4, 4>> >>
Priority == IF nd.fn = "2D" THEN Priority2D ELSE Priority3D

Qualifies(c) ==
    /\ c[1] * c[2] * c[3] <= nd.max
    /\ \A d \in 1..3 : nd.g[d] % c[d] = 0

\* C14: getOptimal2D / getOptimal3D return the first candidate of the priority
\* list that qualifies, return no listed candidate when none qualifies, and
\* return (16, 16) for global (1024, 1024) with a limit of at least 256.
C14_FirstQualifyingCandidate ==
    nd.fn \in {"2D", "3D"} =>
        /\ \A i \in 1..Len(Priority) :
              (Qualifies(Priority[i]) /\ \A j \in 1..(i - 1) : ~Qualifies(Priority[j]))
                  => nd.loc = Priority[i]
        /\ (\A i \in 1..Len(Priority) : ~Qualifies(Priority[i]))
              => \A i \in 1..Len(Priority) : nd.loc # Priority[i]
        /\ (nd.fn = "2D" /\ nd.g = <<1024, 1024, 1>> /\ nd.max >= 256)
              => nd.loc = <<16, 16, 1>>

\* C14 witness: global (1024, 1024), which every 2D candidate divides, with a
\* limit of 256 gave (16, 16).
C14_Witness ==
    /\ nd.fn = "2D"
    /\ nd.g = <<1024, 1024, 1>> /\ nd.max = 256
    /\ nd.loc = <<16, 16, 1>>

\* The reference computation of the 1D local size.
RefTarget(pm, max) ==
    LET ks == {k \in 0..10 : \A j \in 1..k : pm * 2 ^ j <= max /\ pm * 2 ^ j <= 1024}
    IN  pm * 2 ^ (CHOOSE k \in ks : \A m \in ks : m <= k)

RefDivisor(g, target) ==
    LET ds == {d \in 1..Min(g, target) : g % d = 0}
    IN  CHOOSE d \in ds : \A e \in ds : e <= d

RefSnap(d, pm) ==
    IF pm > 1
    THEN IF d - (d % pm) = 0 THEN pm ELSE d - (d % pm)
    ELSE d

Ref1D(g, max, pm) == Max(1, Min(RefSnap(RefDivisor(g, RefTarget(pm, max)), pm), max))

\* C15: getOptimal1D returns what the reference computation gives (target by
\* doubling, largest divisor up to it, snap to the preferred multiple, clamp),
\* and 1024 for global 1048576, limit 1024, preferred multiple 64.
C15_Optimal1DMatchesReference ==
    nd.fn = "1D" =>
        /\ nd.loc[1] = Ref1D(nd.g[1], nd.max, nd.pm)
        /\ (nd.g[1] = 1048576 /\ nd.max = 1024 /\ nd.pm = 64) => nd.loc[1] = 1024

\* C15 witness: the call with global 1048576, limit 1024, preferred multiple 64
\* returned 1024.
C15_Witness ==
    /\ nd.fn = "1D"
    /\ nd.g[1] = 1048576 /\ nd.max = 1024 /\ nd.pm = 64
    /\ nd.loc[1] = 1024

\* C17: roundUp and getPaddedGlobalSize return value itself for multiple 0, and
\* for multiple >= 1 the smallest multiple of it that is >= value: a result r
\* with value <= r < value + multiple and r % multiple = 0.
C17_RoundUpSmallestMultiple ==
    nd.fn \in {"roundUp", "getPaddedGlobalSize"} =>
        LET value == nd.g[1]
            multiple == nd.pm
            r == nd.loc[1]
        IN  IF multiple = 0
            THEN r = value
            ELSE value <= r /\ r < value + multiple /\ r % multiple = 0

\* ---- C16 (SpecKernel) ------------------------------------------------

\* C16: with local = getOptimal1D(N) and global = getPaddedGlobalSize(N, local),
\* isValidWorkSize(global, local) holds, global >= N, and the following
\* execute(queue, global, local) does not fail with InvalidWorkSize.
C16_PlannedDispatchValid ==
    nd.fn = "plan" =>
        /\ isValidWorkSize(nd.g[2], nd.loc[1])
        /\ nd.g[2] >= nd.g[1]
        /\ (last.op = "execute" /\ last.off = nd.g[2] /\ last.cnt = nd.loc[1])
              => last.st # "InvalidWorkSize"

\* ---- C11, C18, C19, C20 (SpecProg) -----------------------------------

\* C11: an operation whose native call reported a non-success status raised
\* the structured Error carrying that status; none returned normally or
\* raised something else.
C11_NativeFailureRaised ==
    last.nat # "none" => (last.st = "NativeError" /\ last.code = last.nat)

\* C18: fromBinary either returns a Program owning a new handle on which the
\* forced build ran and succeeded, or throws leaving no Program; a handle it
\* created before throwing has been released exactly once and is held by no
\* wrapper, and a failure to read the file creates no native program.
C18_FromBinaryAllOrNothing ==
    [][last'.op = "fromBinary" =>
          CASE last'.st = "ok" ->
                 /\ nextH' = nextH + 1
                 /\ objs' = [objs EXCEPT ![last'.b] = Owner(nextH)]
                 /\ prog'[nextH].build = "built"
                 /\ rel' = rel
            [] last'.st = "FileError" ->
                 /\ objs' = objs /\ nextH' = nextH /\ acq' = acq /\ rel' = rel
            [] OTHER ->
                 /\ objs' = objs
                 /\ \/ nextH' = nextH /\ acq' = acq /\ rel' = rel
                    \/ /\ nextH' = nextH + 1
                       /\ acq'[nextH] = 1 /\ rel'[nextH] = 1
                       /\ Holders(nextH)' = {}]_vars

\* C18 witness: fromBinary created a program from the cached binary, the forced
\* build failed, and the handle was released as the call threw.
C18_Witness ==
    /\ last.op = "fromBinary"
    /\ last.st = "NativeError" /\ last.nat = "CL_BUILD_PROGRAM_FAILURE"
    /\ last.val # 0
    /\ prog[last.val].build = "failed"
    /\ rel[last.val] = 1
    /\ ~objs[last.b].live

\* C19: saveBinary on a Program that is empty, unbuilt or whose build failed
\* fails and leaves the cache file as it was; the file changes only when the
\* Program is in the built state.
C19_SaveOnlyWhenBuilt ==
    [][last'.op = "saveBinary" =>
          LET h == objs[last'.b].h
              built == h # 0 /\ prog[h].build = "built"
          IN  /\ ~built => (last'.st # "ok" /\ files' = files)
              /\ files' # files => built]_vars

\* C20: a build (build, buildOptimized, buildDebug) whose native call reported
\* a non-success status raised the structured Error carrying that status, with
\* the build log the native layer holds for the program in its description,
\* and left the Program owning its handle.
C20_BuildFailureReported ==
    [][(last'.op \in BuildOps /\ last'.nat # "none") =>
          /\ last'.st = "NativeError" /\ last'.code = last'.nat
          /\ objs' = objs /\ rel' = rel
          /\ objs[last'.b].h # 0 => last'.log = prog'[objs[last'.b].h].log]_vars

\* ---- C28 (SpecWrite) -------------------------------------------------

\* C28: a full-buffer write or writeAsync that passed the capacity check and
\* whose native enqueue failed raised the error and left the buffer's size at
\* its value before the call.
C28_SizeKeptOnNativeFailure ==
    (last.op \in {"write", "writeAsync"} /\ last.st = "NativeError") =>
        objs[last.b].size = last.pre.size

\* ---- C29 (SpecRange) -------------------------------------------------

\* The call was turned away by a range check, before any native call.
Rejected(l) == l.st \in {"CapacityExceeded", "RangeExceeded"}

\* The range the call names, its end taken in the integers, leaves its bound.
TrueRangeExceeds(l) ==
    CASE l.op \in {"writeOffset", "writePtr"} -> l.off + Len(l.data) > l.pre.cap
      [] l.op \in PartReadOps -> l.off + l.cnt > l.pre.size
      [] l.op = "copyFrom" -> l.off2 + l.cnt > l.pre2.size \/ l.off + l.cnt > l.pre.cap
      [] OTHER -> FALSE

\* C29: for every offset and count of the machine word, those whose sum wraps
\* included, an offset write whose range end exceeds capacity, a partial read
\* whose range end exceeds size and a copy whose source or destination range
\* end exceeds its bound are rejected by the range check and never reach the
\* native layer.
C29_RangeChecksSoundUnderWrap ==
    TrueRangeExceeds(last) => Rejected(last)

\* ---- C23 (SpecWrite) -------------------------------------------------

\* Buffer operations that take a blocking flag, and the two Async ones.
TransferOps ==
    {"write", "writeOffset", "writePtr", "fill", "read", "readPart", "readPtr",
     "copyFrom", "copyTo", "writeAsync", "readAsync"}

\* C23: every Buffer operation that returned without blocking, leaving its
\* command in flight, gave its caller the completion token of that command.
C23_NonBlockingReturnsToken ==
    (last.op \in TransferOps /\ ~last.blk /\ last.st = "ok") => last.ev

\* ---- C22, C27 (SpecAsync) --------------------------------------------

\* The last two host calls were writeAsync(x) and then readAsync(out) on the
\* same buffer, both accepted, and the device has completed every command.
WriteThenReadCompleted ==
    /\ last.op = "readAsync" /\ last.st = "ok"
    /\ prev.kind = "writeAsync" /\ prev.b = last.b
    /\ pending = <<>>

\* C22: on the in-order queue, after writeAsync(x) and then readAsync(out) on
\* the same buffer, once both commands have completed out equals x, in length
\* and in content, however the device steps interleave with the host calls.
C22_InOrderWriteThenRead ==
    WriteThenReadCompleted => out = prev.data

\* C22 witness: both commands completed and the vector read back is the
\* non-zero, full-capacity vector that was written.
C22_Witness ==
    /\ WriteThenReadCompleted
    /\ Len(prev.data) = MaxCap /\ prev.data[1] # 0
    /\ out = prev.data

\* C27: fill(v, blocking = false), then the queue drained, then a blocking
\* full read yields size elements all equal to v.
C27_NonBlockingFillThenRead ==
    [][(last.op = "fill" /\ ~last.blk /\ last.st = "ok" /\ pending = <<>>
          /\ ReadsBack(last.b))
          => out' = Repeat(objs[last.b].size, last.val)]_vars

\* ---- C26 (SpecFrame) -------------------------------------------------

\* Operations that are to leave every buffer's size and capacity alone.
SizeKeepingOps ==
    {"read", "readPart", "readPtr", "writeOffset", "writePtr",
     "copyFrom", "copyTo", "map", "unmap"}

FullWriteOps == {"write", "fill"}

BindingOps == SetArgOps \cup {"setArgs"}

C25_SetArgsIsSetArgSequence ==
    [][last'.op = "setArgs" =>
          LET h == objs[last'.b].h
              v == last'.data
              n == Len(v)
              k == last'.off
          IN  /\ k \in 0..n
              /\ last'.st = "ok" <=> k = n
              /\ last'.st # "ok" => last'.st = "NativeError" /\ last'.code # "none"
              /\ last'.cnt = Min(k + 1, n)
              /\ h # 0 =>
                    \A i \in 0..(NumArgs - 1) :
                        args'[h][i] = IF i < k THEN v[i + 1] ELSE args[h][i]
              /\ \A g \in Handles \ {h} : args'[g] = args[g]]_vars

\* C25 witness: setArgs with three values failed at index 1: index 0 holds the
\* first value, two binding calls were made.
C25_Witness ==
    /\ last.op = "setArgs" /\ last.st = "NativeError"
    /\ Len(last.data) = 3 /\ last.off = 1 /\ last.cnt = 2
    /\ objs[last.b].h # 0
    /\ args[objs[last.b].h][0] = last.data[1]
    /\ args[objs[last.b].h][1] # last.data[2]

\* ---- C21 (SpecProg) --------------------------------------------------

\* The inputs of the elementwise test: all ones, all twos; its expected output.
Ones == <<1, 1>>
Twos == <<2, 2>>
Threes == <<3, 3>>

LoopsForever == nd.fn \in LoopPcs /\ LoopStep(nd) = {nd}

\* What the stepped loops return is what the functions compute.
SameAsComputed ==
    CASE nd.fn = "1D" -> nd.loc[1] = getOptimal1D(nd.g[1], nd.max, nd.pm)
      [] nd.fn = "findBestDivisor" -> nd.loc[1] = findBestDivisor(nd.g[1], nd.max)
      [] nd.fn = "2D" ->
            LET r == getOptimal2D(nd.g[1], nd.g[2], nd.max)
            IN  nd.loc = <<r[1], r[2], 1>>
      [] nd.fn = "3D" -> nd.loc = getOptimal3D(nd.g[1], nd.g[2], nd.g[3], nd.max)
      [] OTHER -> TRUE

AllAtLeastOne(n) == n.max >= 1 /\ n.pm >= 1 /\ \A d \in 1..3 : n.g[d] >= 1

\* C30: getOptimal1D, getOptimal2D, getOptimal3D and findBestDivisor never
\* divide by zero and never stay in a loop for good, whatever the inputs, a
\* preferred multiple of 0, a limit of 0 and an extent of 0 included; and on
\* inputs that are all >= 1 every component they return is >= 1.
C30_OptimalTerminates ==
    /\ nd.fn # "trap"
    /\ ~LoopsForever
    /\ (nd.fn \in Returned /\ AllAtLeastOne(nd)) =>
          /\ \A d \in 1..3 : nd.loc[d] >= 1
          /\ SameAsComputed

====
